---- MODULE Spec2Model ----
(***************************************************************************)
(* A model of gogobot: the attribute collector, the built-in detectors,   *)
(* the BotDetector engine (Collect / Detect / registry), the package-level *)
(* convenience API, the browser parser and the HTTP middleware.            *)
(*                                                                         *)
(* Go values are modelled as follows:                                      *)
(*   - a string is a TLA+ string (Len, SubSeq and \o act on it);           *)
(*   - a pointer that may be nil is a sequence: <<>> is nil, <<v>> points  *)
(*     to v;                                                               *)
(*   - a map[string]T is a function whose DOMAIN is the set of keys;       *)
(*   - `for k, v := range m` visits the keys of m in an order the language *)
(*     leaves unspecified: every order is a possible run.                  *)
(***************************************************************************)
EXTENDS Integers, Sequences, FiniteSets, TLC

VARIABLES
    components,     \* BotDetector.components    (*ComponentDict, nil = <<>>)
    detections,     \* BotDetector.detections    (*DetectionDict, nil = <<>>)
    detectorFuncs,  \* BotDetector.detectorFuncs (map[string]DetectorFunc)
    ret,            \* the last call on the detector and what it returned
    hist,           \* verdicts of the Detect calls since the last change of bag or registry
    collected,      \* whether Collect was called on this detector
    api,            \* the last package-level call and what it returned
    mw,             \* the last request served by the middleware and its outcome
    procs           \* the goroutines running on the detector: where each stands, its locals

vars == <<components, detections, detectorFuncs, ret, hist, collected, api, mw, procs>>

(***************************************************************************)
(* Bounds of the model.                                                    *)
(***************************************************************************)
MaxCustom == 1      \* entries of a construct-time custom-detector map

Nil == <<>>
Ptr(v) == <<v>>
Deref(p) == p[1]

(***************************************************************************)
(* strings                                                                 *)
(***************************************************************************)
UpperLetters == "ABCDEFGHIJKLMNOPQRSTUVWXYZ"
LowerLetters == "abcdefghijklmnopqrstuvwxyz"
Digits == "0123456789"

CharAt(s, i) == SubSeq(s, i, i)

\* whether the one-character string c occurs in the string set
IsCharOf(c, set) == \E i \in 1..Len(set) : CharAt(set, i) = c

\* unicode.ToLower on one ASCII character
LowerChar(c) ==
    IF IsCharOf(c, UpperLetters)
    THEN CharAt(LowerLetters, CHOOSE i \in 1..Len(UpperLetters) : CharAt(UpperLetters, i) = c)
    ELSE c

\* strings.ToLower
RECURSIVE ToLower(_)
ToLower(s) ==
    IF Len(s) = 0 THEN ""
    ELSE LowerChar(CharAt(s, 1)) \o ToLower(SubSeq(s, 2, Len(s)))

\* whether sub occurs in s at position i
MatchAt(s, i, sub) ==
    /\ i >= 1
    /\ i + Len(sub) - 1 <= Len(s)
    /\ SubSeq(s, i, i + Len(sub) - 1) = sub

\* strings.Contains
Contains(s, sub) == \E i \in 1..(Len(s) + 1) : MatchAt(s, i, sub)

WhiteSpace == " \t\n\r\f"
IsSpace(c) == IsCharOf(c, WhiteSpace)

\* strings.TrimSpace
RECURSIVE TrimLeft(_)
TrimLeft(s) ==
    IF Len(s) > 0 /\ IsSpace(CharAt(s, 1)) THEN TrimLeft(SubSeq(s, 2, Len(s))) ELSE s
RECURSIVE TrimRight(_)
TrimRight(s) ==
    IF Len(s) > 0 /\ IsSpace(CharAt(s, Len(s))) THEN TrimRight(SubSeq(s, 1, Len(s) - 1)) ELSE s
TrimSpace(s) == TrimRight(TrimLeft(s))

(***************************************************************************)
(* types.go                                                                *)
(***************************************************************************)
StateSuccess == "StateSuccess"
StateUndefined == "StateUndefined"

BotKindElectron == "electron"
BotKindPhantomJS == "phantomjs"
BotKindSelenium == "selenium"
BotKindHeadlessChrome == "headless_chrome"
BotKindPlaywright == "playwright"
BotKindPuppeteer == "puppeteer"
BotKindCurl == "curl"
BotKindWget == "wget"
BotKindBot == "bot"
BotKindCrawler == "crawler"
BotKindUnknown == "unknown"
\* the AI-agent kinds: detectUserAgent and IsGPTAgent name them, their
\* declaration is not among the sources; they are distinct kinds
BotKindGPTBot == "gptbot"
BotKindChatGPT == "chatgpt"
BotKindOpenAI == "openai"
BotKindClaude == "claude"
BotKindAIAgent == "ai_agent"

\* BotDetectionResult; the zero BotKind is the empty string
BotDetectionResult(bot, kind) == [Bot |-> bot, BotKind |-> kind]
NotBot == BotDetectionResult(FALSE, "")

SuccessComponent(v) == [State |-> StateSuccess, Value |-> v, Error |-> ""]
\* ErrorComponent.GetValue returns the zero value of T
ErrorComponent(state, err, zero) == [State |-> state, Value |-> zero, Error |-> err]
GetState(c) == c.State
GetValue(c) == c.Value

\* the zero DetectionDict
ZeroDetections ==
    [UserAgent |-> NotBot, Headers |-> NotBot, HeaderOrder |-> NotBot,
     HeaderCount |-> NotBot, MissingHeaders |-> NotBot, AcceptHeaders |-> NotBot,
     Connection |-> NotBot, ContentLength |-> NotBot]

(***************************************************************************)
(* http.Request: Header is a map from canonical header names to their     *)
(* values; Header.Get returns the first value of a name, or "".            *)
(***************************************************************************)
HeaderGet(req, name) ==
    IF name \in DOMAIN req.Header /\ Len(req.Header[name]) > 0
    THEN req.Header[name][1]
    ELSE ""

(***************************************************************************)
(* the attribute collector                                                 *)
(***************************************************************************)
getUserAgent(req) ==
    LET userAgent == HeaderGet(req, "User-Agent")
    IN  IF userAgent = ""
        THEN ErrorComponent(StateUndefined, "User-Agent header is missing", "")
        ELSE SuccessComponent(userAgent)

commonHeaders == <<"Accept", "Accept-Language", "Accept-Encoding", "Connection", "User-Agent">>

getMissingCommonHeaders(req) ==
    SuccessComponent(SelectSeq(commonHeaders, LAMBDA header : HeaderGet(req, header) = ""))

\* getHeaderOrder appends the header names in map-iteration order; no detector
\* reads more than the number of names, so the model keeps the names as a set.
getHeaderOrder(req) == SuccessComponent(DOMAIN req.Header)

collectAllSources(req) ==
    [UserAgent            |-> getUserAgent(req),
     XForwardedFor        |-> SuccessComponent(HeaderGet(req, "X-Forwarded-For")),
     XRealIP              |-> SuccessComponent(HeaderGet(req, "X-Real-Ip")),
     AcceptLanguage       |-> SuccessComponent(HeaderGet(req, "Accept-Language")),
     AcceptEncoding       |-> SuccessComponent(HeaderGet(req, "Accept-Encoding")),
     AcceptCharset        |-> SuccessComponent(HeaderGet(req, "Accept-Charset")),
     Accept               |-> SuccessComponent(HeaderGet(req, "Accept")),
     Connection           |-> SuccessComponent(HeaderGet(req, "Connection")),
     CacheControl         |-> SuccessComponent(HeaderGet(req, "Cache-Control")),
     UpgradeInsecure      |-> SuccessComponent(HeaderGet(req, "Upgrade-Insecure-Requests") = "1"),
     DNT                  |-> SuccessComponent(HeaderGet(req, "Dnt")),
     Headers              |-> SuccessComponent(req.Header),
     ContentLength        |-> SuccessComponent(req.ContentLength),
     RequestMethod        |-> SuccessComponent(req.Method),
     RequestPath          |-> SuccessComponent(req.Path),
     RequestQuery         |-> SuccessComponent(req.RawQuery),
     RemoteAddr           |-> SuccessComponent(req.RemoteAddr),
     HeaderOrder          |-> getHeaderOrder(req),
     HeaderCount          |-> SuccessComponent(Cardinality(DOMAIN req.Header)),
     MissingCommonHeaders |-> getMissingCommonHeaders(req)]

(***************************************************************************)
(* inputs: the User-Agent values of the requests                           *)
(***************************************************************************)
ChromeUA == "Mozilla/5.0 (X11; Linux x86_64) Chrome/120.0.0.0 Safari/537.36"
CurlUA == "curl/7.68.0"
GPTBotUA == "Mozilla/5.0 (compatible; GPTBot/1.0)"
BareUA == "Mozilla/5.0"
FirefoxUA == "Mozilla/5.0 (X11; Linux x86_64; rv:121.0) Gecko/20100101 Firefox/121.0"
EdgeUA == "Mozilla/5.0 (Windows NT 10.0) Chrome/120.0.0.0 Safari/537.36 Edg/120.0.2210.91"
SafariUA == "Mozilla/5.0 (Macintosh) AppleWebKit/605.1.15 Version/17.1 Safari/605.1.15"
UserAgents == {ChromeUA, CurlUA, GPTBotUA, BareUA, FirefoxUA, EdgeUA, SafariUA}

\* the user agent strings handed to the string-level functions
ParserInputs == UserAgents \cup {"", "  ", "  " \o ChromeUA \o " "}

(***************************************************************************)
(* the built-in detectors                                                  *)
(***************************************************************************)
\* specificBots with the generic group moved before the crawler group
specificBotsGenericFirst ==
    << [kind |-> BotKindGPTBot,   patterns |-> <<"gptbot", "gpt-bot">>],
       [kind |-> BotKindChatGPT,  patterns |-> <<"chatgpt-user", "chatgpt", "openai-chatgpt">>],
       [kind |-> BotKindOpenAI,   patterns |-> <<"openai", "openai-bot", "openai-crawler">>],
       [kind |-> BotKindClaude,   patterns |-> <<"claude-web", "claude", "anthropic">>],
       [kind |-> BotKindAIAgent,  patterns |-> <<"ai-agent", "aiagent", "ai_agent",
                                                 "artificial intelligence", "language model",
                                                 "llm", "gpt-", "claude-", "bard", "gemini-pro">>],
       [kind |-> BotKindPhantomJS,      patterns |-> <<"phantomjs">>],
       [kind |-> BotKindSelenium,       patterns |-> <<"selenium", "webdriver">>],
       [kind |-> BotKindElectron,       patterns |-> <<"electron">>],
       [kind |-> BotKindHeadlessChrome, patterns |-> <<"headlesschrome", "headless">>],
       [kind |-> BotKindPlaywright,     patterns |-> <<"playwright">>],
       [kind |-> BotKindPuppeteer,      patterns |-> <<"puppeteer">>],
       [kind |-> BotKindCurl,           patterns |-> <<"curl/">>],
       [kind |-> BotKindWget,           patterns |-> <<"wget/">>],
       [kind |-> BotKindBot,            patterns |-> <<"bot", "crawler", "spider", "scraper">>],
       [kind |-> BotKindCrawler,        patterns |-> <<"googlebot", "bingbot", "slurp",
                                                       "duckduckbot", "baiduspider">>] >>

\* detectUserAgent's specificBots, in its order
specificBots ==
    << [kind |-> BotKindGPTBot,   patterns |-> <<"gptbot", "gpt-bot">>],
       [kind |-> BotKindChatGPT,  patterns |-> <<"chatgpt-user", "chatgpt", "openai-chatgpt">>],
       [kind |-> BotKindOpenAI,   patterns |-> <<"openai", "openai-bot", "openai-crawler">>],
       [kind |-> BotKindClaude,   patterns |-> <<"claude-web", "claude", "anthropic">>],
       [kind |-> BotKindAIAgent,  patterns |-> <<"ai-agent", "aiagent", "ai_agent",
                                                 "artificial intelligence", "language model",
                                                 "llm", "gpt-", "claude-", "bard", "gemini-pro">>],
       [kind |-> BotKindPhantomJS,      patterns |-> <<"phantomjs">>],
       [kind |-> BotKindSelenium,       patterns |-> <<"selenium", "webdriver">>],
       [kind |-> BotKindElectron,       patterns |-> <<"electron">>],
       [kind |-> BotKindHeadlessChrome, patterns |-> <<"headlesschrome", "headless">>],
       [kind |-> BotKindPlaywright,     patterns |-> <<"playwright">>],
       [kind |-> BotKindPuppeteer,      patterns |-> <<"puppeteer">>],
       [kind |-> BotKindCurl,           patterns |-> <<"curl/">>],
       [kind |-> BotKindWget,           patterns |-> <<"wget/">>],
       [kind |-> BotKindCrawler,        patterns |-> <<"googlebot", "bingbot", "slurp",
                                                       "duckduckbot", "baiduspider">>],
       [kind |-> BotKindBot,            patterns |-> <<"bot", "crawler", "spider", "scraper">>] >>

\* whether some pattern of the group occurs in the user agent
GroupMatches(userAgent, botType) ==
    \E j \in 1..Len(botType.patterns) : Contains(userAgent, botType.patterns[j])

\* regexp `^\s*$` (and `^$`): the text holds white space only
MatchesBlank(s) == \A i \in 1..Len(s) : IsSpace(CharAt(s, i))

\* regexp `<head>.<last>$`: the text ends with head, any one character but a
\* newline, and last
MatchesDotEnd(s, head, last) ==
    LET n == Len(head) + 1 + Len(last)
    IN  /\ Len(s) >= n
        /\ MatchAt(s, Len(s) - n + 1, head)
        /\ CharAt(s, Len(s) - Len(last)) # "\n"
        /\ MatchAt(s, Len(s) - Len(last) + 1, last)

\* the suspiciousPatterns that are plain words: the regexp matches anywhere
suspiciousWords ==
    <<"python", "java", "go-http-client", "libwww-perl", "httpclient", "okhttp",
      "requests", "urllib">>

MatchesSuspicious(userAgent) ==
    \/ Len(userAgent) = 0
    \/ MatchesBlank(userAgent)
    \/ MatchesDotEnd(userAgent, "mozilla/5", "0")
    \/ MatchesDotEnd(userAgent, "mozilla/4", "0")
    \/ \E j \in 1..Len(suspiciousWords) : Contains(userAgent, suspiciousWords[j])

\* detectUserAgent from `userAgent := strings.ToLower(...)` on: the verdict on
\* the user agent value
UserAgentVerdict(value) ==
    LET userAgent == ToLower(value)
        hits == {i \in 1..Len(specificBots) : GroupMatches(userAgent, specificBots[i])}
    IN  IF hits # {}
        THEN BotDetectionResult(TRUE,
                specificBots[CHOOSE i \in hits : \A k \in hits : i <= k].kind)
        ELSE IF MatchesSuspicious(userAgent)
             THEN BotDetectionResult(TRUE, BotKindUnknown)
             ELSE NotBot

\* UserAgentVerdict on the user agents of the model, evaluated once
KnownVerdicts == {<<value, UserAgentVerdict(value)>> : value \in ParserInputs}

detectUserAgent(c) ==
    IF GetState(c.UserAgent) # StateSuccess THEN NotBot
    ELSE LET value == GetValue(c.UserAgent)
         IN  IF value \in ParserInputs
             THEN (CHOOSE known \in KnownVerdicts : known[1] = value)[2]
             ELSE UserAgentVerdict(value)

automationHeaders ==
    <<"X-Requested-With", "X-DevTools-Emulate-Network-Conditions-Client-Id",
      "Chrome-Proxy", "Purpose">>

detectHeaders(c) ==
    IF GetState(c.Headers) # StateSuccess THEN NotBot
    ELSE IF \E j \in 1..Len(automationHeaders) :
                automationHeaders[j] \in DOMAIN GetValue(c.Headers)
         THEN BotDetectionResult(TRUE, BotKindUnknown)
         ELSE NotBot

MinHeaderCount == 3
MaxHeaderCount == 30

detectHeaderCount(c) ==
    IF GetState(c.HeaderCount) # StateSuccess THEN NotBot
    ELSE LET count == GetValue(c.HeaderCount)
         IN  IF count < MinHeaderCount THEN BotDetectionResult(TRUE, BotKindUnknown)
             ELSE IF count > MaxHeaderCount THEN BotDetectionResult(TRUE, BotKindUnknown)
             ELSE NotBot

MissingThreshold == 4

\* a variant of detectMissingHeaders without the User-Agent clause
detectMissingHeadersCountOnly(c) ==
    IF GetState(c.MissingCommonHeaders) # StateSuccess THEN NotBot
    ELSE IF Len(GetValue(c.MissingCommonHeaders)) >= MissingThreshold
         THEN BotDetectionResult(TRUE, BotKindUnknown)
         ELSE NotBot

\* detectMissingHeaders without the count of the missing headers
detectMissingHeadersUserAgentOnly(c) ==
    IF GetState(c.MissingCommonHeaders) # StateSuccess THEN NotBot
    ELSE IF \E j \in 1..Len(GetValue(c.MissingCommonHeaders)) :
                GetValue(c.MissingCommonHeaders)[j] = "User-Agent"
         THEN BotDetectionResult(TRUE, BotKindUnknown)
         ELSE NotBot

detectMissingHeaders(c) ==
    IF GetState(c.MissingCommonHeaders) # StateSuccess THEN NotBot
    ELSE LET missing == GetValue(c.MissingCommonHeaders)
         IN  IF \E j \in 1..Len(missing) : missing[j] = "User-Agent"
             THEN BotDetectionResult(TRUE, BotKindUnknown)
             ELSE IF Len(missing) >= MissingThreshold
                  THEN BotDetectionResult(TRUE, BotKindUnknown)
                  ELSE NotBot

detectAcceptHeaders(c) ==
    IF /\ GetValue(c.Accept) = ""
       /\ GetValue(c.AcceptLanguage) = ""
       /\ GetValue(c.AcceptEncoding) = ""
    THEN BotDetectionResult(TRUE, BotKindUnknown)
    ELSE NotBot

suspiciousConnections == <<"upgrade", "te">>

detectConnection(c) ==
    IF GetState(c.Connection) # StateSuccess THEN NotBot
    ELSE LET connection == ToLower(GetValue(c.Connection))
         IN  IF \E j \in 1..Len(suspiciousConnections) :
                    Contains(connection, suspiciousConnections[j])
             THEN BotDetectionResult(TRUE, BotKindUnknown)
             ELSE NotBot

detectContentLength(c) ==
    IF GetState(c.ContentLength) # StateSuccess THEN NotBot
    ELSE IF GetValue(c.RequestMethod) = "GET" /\ GetValue(c.ContentLength) > 0
         THEN BotDetectionResult(TRUE, BotKindUnknown)
         ELSE NotBot

MinHeaderOrder == 2

detectHeaderOrder(c) ==
    IF GetState(c.HeaderOrder) # StateSuccess THEN NotBot
    ELSE IF Cardinality(GetValue(c.HeaderOrder)) < MinHeaderOrder
         THEN BotDetectionResult(TRUE, BotKindUnknown)
         ELSE NotBot

\* getDefaultDetectors: a fresh map on every call; a DetectorFunc is named by
\* the function it is
getDefaultDetectors ==
    [name \in {"userAgent", "headers", "headerOrder", "headerCount", "missingHeaders",
               "acceptHeaders", "connection", "contentLength"} |->
        CASE name = "userAgent"      -> "detectUserAgent"
          [] name = "headers"        -> "detectHeaders"
          [] name = "headerOrder"    -> "detectHeaderOrder"
          [] name = "headerCount"    -> "detectHeaderCount"
          [] name = "missingHeaders" -> "detectMissingHeaders"
          [] name = "acceptHeaders"  -> "detectAcceptHeaders"
          [] name = "connection"     -> "detectConnection"
          [] name = "contentLength"  -> "detectContentLength"]

(***************************************************************************)
(* custom detectors: the DetectorFunc values a caller may register.  Each  *)
(* is a closure returning a fixed result, as the ones of the tests are.    *)
(***************************************************************************)
CustomFuncs ==
    {"nilDetector", "alwaysBot", "seleniumDetector", "curlDetector",
     "emptyKindBot", "kindWithoutBot"}

CustomResult(f) ==
    CASE f = "nilDetector"      -> Nil
      [] f = "alwaysBot"        -> Ptr(BotDetectionResult(TRUE, BotKindUnknown))
      [] f = "seleniumDetector" -> Ptr(BotDetectionResult(TRUE, BotKindSelenium))
      [] f = "curlDetector"     -> Ptr(BotDetectionResult(TRUE, BotKindCurl))
      [] f = "emptyKindBot"     -> Ptr(BotDetectionResult(TRUE, ""))
      [] f = "kindWithoutBot"   -> Ptr(BotDetectionResult(FALSE, BotKindSelenium))

\* detectorFunc(d.components): the *BotDetectionResult the function returns
RunDetector(f, c) ==
    CASE f = "detectUserAgent"      -> Ptr(detectUserAgent(c))
      [] f = "detectHeaders"        -> Ptr(detectHeaders(c))
      [] f = "detectHeaderOrder"    -> Ptr(detectHeaderOrder(c))
      [] f = "detectHeaderCount"    -> Ptr(detectHeaderCount(c))
      [] f = "detectMissingHeaders" -> Ptr(detectMissingHeaders(c))
      [] f = "detectAcceptHeaders"  -> Ptr(detectAcceptHeaders(c))
      [] f = "detectConnection"     -> Ptr(detectConnection(c))
      [] f = "detectContentLength"  -> Ptr(detectContentLength(c))
      [] OTHER                      -> CustomResult(f)

(***************************************************************************)
(* BotDetector.Detect                                                      *)
(***************************************************************************)
\* the switch that stores a detector's result in the DetectionDict
StoreDetection(dets, name, result) ==
    CASE name = "userAgent"      -> [dets EXCEPT !.UserAgent = result]
      [] name = "headers"        -> [dets EXCEPT !.Headers = result]
      [] name = "headerOrder"    -> [dets EXCEPT !.HeaderOrder = result]
      [] name = "headerCount"    -> [dets EXCEPT !.HeaderCount = result]
      [] name = "missingHeaders" -> [dets EXCEPT !.MissingHeaders = result]
      [] name = "acceptHeaders"  -> [dets EXCEPT !.AcceptHeaders = result]
      [] name = "connection"     -> [dets EXCEPT !.Connection = result]
      [] name = "contentLength"  -> [dets EXCEPT !.ContentLength = result]
      [] OTHER                   -> dets

\* the condition under which a bot result replaces bestResult
\* the replacement rule without its user-agent clause
ReplacesBestNoUserAgentClause(bestResult, result, name) ==
    \/ ~bestResult.Bot
    \/ (result.BotKind # BotKindUnknown /\ bestResult.BotKind = BotKindUnknown)

\* the replacement rule without its specific-over-unknown clause
ReplacesBestNoSpecificClause(bestResult, result, name) ==
    \/ ~bestResult.Bot
    \/ (name = "userAgent" /\ result.BotKind # BotKindUnknown)

ReplacesBest(bestResult, result, name) ==
    \/ ~bestResult.Bot
    \/ (result.BotKind # BotKindUnknown /\ bestResult.BotKind = BotKindUnknown)
    \/ (name = "userAgent" /\ result.BotKind # BotKindUnknown)

\* the locals of Detect before its loop
DetectLocals ==
    [visited     |-> {},
     detections  |-> ZeroDetections,
     finalResult |-> BotDetectionResult(FALSE, ""),
     bestResult  |-> BotDetectionResult(FALSE, "")]

\* a variant of DetectIter in which a result that is no bot verdict leaves
\* its kind in finalResult
DetectIterKeepsKind(l, name, returned) ==
    LET result == IF returned = Nil THEN BotDetectionResult(FALSE, "") ELSE Deref(returned)
    IN  [visited     |-> l.visited \cup {name},
         detections  |-> StoreDetection(l.detections, name, result),
         bestResult  |-> IF result.Bot /\ ReplacesBest(l.bestResult, result, name)
                         THEN result ELSE l.bestResult,
         finalResult |-> IF result.Bot THEN [l.finalResult EXCEPT !.Bot = TRUE]
                         ELSE [l.finalResult EXCEPT !.BotKind = result.BotKind]]

\* a variant of DetectIter in which every bot result replaces bestResult
DetectIterLastWins(l, name, returned) ==
    LET result == IF returned = Nil THEN BotDetectionResult(FALSE, "") ELSE Deref(returned)
    IN  [visited     |-> l.visited \cup {name},
         detections  |-> StoreDetection(l.detections, name, result),
         bestResult  |-> IF result.Bot THEN result ELSE l.bestResult,
         finalResult |-> IF result.Bot THEN [l.finalResult EXCEPT !.Bot = TRUE]
                         ELSE l.finalResult]

\* one iteration of the loop, for the registry entry name whose function
\* returned returned (nil or a pointer)
DetectIter(l, name, returned) ==
    LET result == IF returned = Nil THEN BotDetectionResult(FALSE, "") ELSE Deref(returned)
    IN  [visited     |-> l.visited \cup {name},
         detections  |-> StoreDetection(l.detections, name, result),
         bestResult  |-> IF result.Bot /\ ReplacesBest(l.bestResult, result, name)
                         THEN result ELSE l.bestResult,
         finalResult |-> IF result.Bot THEN [l.finalResult EXCEPT !.Bot = TRUE]
                         ELSE l.finalResult]

\* whether a call returned a bot verdict
ReturnedBot(call) == call.returned # Nil /\ Deref(call.returned).Bot

\* the iterations of the calls in calls one after the other, in some order
RECURSIVE IterAll(_, _)
IterAll(l, calls) ==
    IF calls = {} THEN l
    ELSE LET call == CHOOSE k \in calls : TRUE
         IN  IterAll(DetectIter(l, call.name, call.returned), calls \ {call})

\* the locals after the loop has visited every call of calls, for every order
\* of them
RECURSIVE RangeOrders(_, _)
RangeOrders(L, calls) ==
    IF \A l \in L : \A call \in calls : call.name \in l.visited THEN L
    ELSE RangeOrders(UNION {{DetectIter(l, call.name, call.returned)
                               : call \in {k \in calls : k.name \notin l.visited}}
                              : l \in L},
                     calls)

\* the locals after `for name, detectorFunc := range d.detectorFuncs`, for
\* every order of the keys; calls holds, per key, what its function returned.
\* An iteration whose result is no bot verdict writes its own field of the
\* DetectionDict and nothing else (DetectIter), so it commutes with every
\* other iteration: the orders that differ only in where those iterations
\* stand end in the same locals, and one representative of them is run.
RangeLoop(l, calls) ==
    LET quiet == {call \in calls : ~ReturnedBot(call)}
    IN  RangeOrders({IterAll(l, quiet)}, calls \ quiet)

\* what Detect leaves once the loop is over: the verdict and the DetectionDict
\* an end of Detect that returns only a bestResult of a specific kind
DetectFinishBestOnly(l) ==
    [result     |-> IF l.bestResult.Bot /\ l.bestResult.BotKind # BotKindUnknown
                    THEN l.bestResult ELSE BotDetectionResult(FALSE, ""),
     detections |-> l.detections]

DetectFinish(l) ==
    [result     |-> IF l.bestResult.Bot THEN l.bestResult ELSE l.finalResult,
     detections |-> l.detections]

\* detectorFunc(d.components) for every entry of the registry
DetectorCalls(funcs, c) ==
    {[name |-> name, returned |-> RunDetector(funcs[name], c)] : name \in DOMAIN funcs}

\* every outcome of Detect on the registry funcs and the bag c
DetectOutcomes(funcs, c) ==
    {DetectFinish(l) : l \in RangeLoop(DetectLocals, DetectorCalls(funcs, c))}

(***************************************************************************)
(* the registry                                                            *)
(***************************************************************************)
\* m[name] = f on a Go map
MapSet(m, name, f) == [k \in DOMAIN m \cup {name} |-> IF k = name THEN f ELSE m[k]]

\* delete(m, name)
\* a delete that leaves the map as it is
MapDeleteNothing(m, name) == m

MapDelete(m, name) == [k \in DOMAIN m \ {name} |-> m[k]]

\* a merge in which the defaults are assigned over the custom entries
MergeCustomDefaultsWin(customDetectors) ==
    [k \in DOMAIN getDefaultDetectors \cup DOMAIN customDetectors |->
        IF k \in DOMAIN getDefaultDetectors THEN getDefaultDetectors[k] ELSE customDetectors[k]]

\* NewDetectorWithCustomDetectors: the defaults with every entry of
\* customDetectors assigned over them
MergeCustom(customDetectors) ==
    [k \in DOMAIN getDefaultDetectors \cup DOMAIN customDetectors |->
        IF k \in DOMAIN customDetectors THEN customDetectors[k] ELSE getDefaultDetectors[k]]

(***************************************************************************)
(* inputs: requests, names and custom-detector maps                        *)
(***************************************************************************)
BrowserHeaders ==
    [h \in {"Accept", "Accept-Language", "Accept-Encoding", "Connection"} |->
        CASE h = "Accept"          -> <<"text/html,application/xhtml+xml">>
          [] h = "Accept-Language" -> <<"en-US,en;q=0.5">>
          [] h = "Accept-Encoding" -> <<"gzip, deflate">>
          [] h = "Connection"      -> <<"keep-alive">>]
NoHeaders == [h \in {} |-> <<>>]
AjaxHeaders == MapSet(BrowserHeaders, "X-Requested-With", <<"XMLHttpRequest">>)
HeaderSets == {BrowserHeaders, NoHeaders, AjaxHeaders}

\* a request as http.NewRequest / httptest.NewRequest builds it and the
\* tests' helpers fill it; an empty user agent leaves the header out
NewRequest(method, header, userAgent, contentLength) ==
    [Method        |-> method,
     Header        |-> IF userAgent = "" THEN header
                       ELSE MapSet(header, "User-Agent", <<userAgent>>),
     ContentLength |-> contentLength,
     Path          |-> "/",
     RawQuery      |-> "",
     RemoteAddr    |-> "192.0.2.1:1234"]

Requests ==
    {NewRequest("GET", h, ua, 0) : h \in HeaderSets, ua \in UserAgents \cup {""}}

\* the requests a BotDetector is driven with
DetectorRequests ==
    {NewRequest("GET", BrowserHeaders, ua, 0) : ua \in {ChromeUA, GPTBotUA, ""}}
        \cup {NewRequest("GET", NoHeaders, CurlUA, 0), NewRequest("GET", AjaxHeaders, ChromeUA, 0)}

\* the names a caller registers detectors under
CustomNames == {"userAgent", "test", "extra"}

\* the (name, detector) pairs a caller passes to AddDetector
AddInputs ==
    {<<"test", f>> : f \in CustomFuncs}
        \cup {<<"extra", "curlDetector">>, <<"userAgent", "seleniumDetector">>}

\* the construct-time maps: at most MaxCustom entries
CustomMaps ==
    UNION {[S -> CustomFuncs] : S \in {T \in SUBSET CustomNames : Cardinality(T) <= MaxCustom}}

(***************************************************************************)
(* the calls on one BotDetector, made one at a time.  ret records the last *)
(* call: its name, its arguments, whether it panicked, what it returned,   *)
(* and the names the registry held when it was made.                       *)
(***************************************************************************)
Call(op, arg, panicked, result) ==
    [op |-> op, arg |-> arg, panicked |-> panicked, result |-> result,
     before |-> IF op \in {"AddDetector", "RemoveDetector"} THEN DOMAIN detectorFuncs ELSE {}]

NewDetector ==
    /\ detectorFuncs' = getDefaultDetectors
    /\ components' = Nil
    /\ detections' = Nil
    /\ collected' = FALSE
    /\ hist' = <<>>
    /\ ret' = Call("NewDetector", <<>>, FALSE, <<>>)
    /\ UNCHANGED <<api, mw, procs>>

NewDetectorWithCustomDetectors(customDetectors) ==
    /\ detectorFuncs' = MergeCustom(customDetectors)
    /\ components' = Nil
    /\ detections' = Nil
    /\ collected' = FALSE
    /\ hist' = <<>>
    /\ ret' = Call("NewDetectorWithCustomDetectors", <<customDetectors>>, FALSE, <<>>)
    /\ UNCHANGED <<api, mw, procs>>

Collect(req) ==
    /\ components' = Ptr(collectAllSources(req))
    /\ collected' = TRUE
    /\ hist' = <<>>
    /\ ret' = Call("Collect", <<req>>, FALSE, <<components'>>)
    /\ UNCHANGED <<detections, detectorFuncs, api, mw, procs>>

\* the accessors return the fields
GetComponents == components

GetDetections == detections

\* a Detect that runs the loop on an empty bag instead of panicking
DetectWithoutNilCheck ==
    IF components = Nil
    THEN /\ ret' = Call("Detect", <<>>, FALSE, <<BotDetectionResult(FALSE, "")>>)
         /\ UNCHANGED <<components, detections, detectorFuncs, hist, collected, api, mw, procs>>
    ELSE \E o \in DetectOutcomes(detectorFuncs, Deref(components)) :
            /\ detections' = Ptr(o.detections)
            /\ ret' = Call("Detect", <<>>, FALSE, <<o.result>>)
            /\ hist' = IF hist = <<>> THEN <<o.result>> ELSE <<hist[Len(hist)], o.result>>
            /\ UNCHANGED <<components, detectorFuncs, collected, api, mw, procs>>

\* a Detect that fills the DetectionDict of the previous call instead of a
\* new one
DetectReusingRecord ==
    IF components = Nil
    THEN /\ ret' = Call("Detect", <<>>, TRUE, <<>>)
         /\ UNCHANGED <<components, detections, detectorFuncs, hist, collected, api, mw, procs>>
    ELSE \E l \in RangeLoop([DetectLocals EXCEPT !.detections =
                                IF detections = Nil THEN ZeroDetections ELSE Deref(detections)],
                            DetectorCalls(detectorFuncs, Deref(components))) :
            /\ detections' = Ptr(DetectFinish(l).detections)
            /\ ret' = Call("Detect", <<>>, FALSE, <<DetectFinish(l).result>>)
            /\ hist' = IF hist = <<>> THEN <<DetectFinish(l).result>>
                       ELSE <<hist[Len(hist)], DetectFinish(l).result>>
            /\ UNCHANGED <<components, detectorFuncs, collected, api, mw, procs>>

\* hist keeps the verdicts of the last two Detect calls made on the same bag
\* and registry
Detect ==
    IF components = Nil
    THEN /\ ret' = Call("Detect", <<>>, TRUE, <<>>)
         /\ UNCHANGED <<components, detections, detectorFuncs, hist, collected, api, mw, procs>>
    ELSE \E o \in DetectOutcomes(detectorFuncs, Deref(components)) :
            /\ detections' = Ptr(o.detections)
            /\ ret' = Call("Detect", <<>>, FALSE, <<o.result>>)
            /\ hist' = IF hist = <<>> THEN <<o.result>> ELSE <<hist[Len(hist)], o.result>>
            /\ UNCHANGED <<components, detectorFuncs, collected, api, mw, procs>>

\* an AddDetector that waits while a Detect loop is running
AddDetectorLocked(name, detector) ==
    /\ procs.pc # "range"
    /\ detectorFuncs' = MapSet(detectorFuncs, name, detector)
    /\ hist' = <<>>
    /\ ret' = Call("AddDetector", <<name, detector>>, FALSE, <<>>)
    /\ UNCHANGED <<components, detections, collected, api, mw, procs>>

AddDetector(name, detector) ==
    /\ detectorFuncs' = MapSet(detectorFuncs, name, detector)
    /\ hist' = <<>>
    /\ ret' = Call("AddDetector", <<name, detector>>, FALSE, <<>>)
    /\ UNCHANGED <<components, detections, collected, api, mw, procs>>

RemoveDetector(name) ==
    /\ detectorFuncs' = MapDelete(detectorFuncs, name)
    /\ hist' = <<>>
    /\ ret' = Call("RemoveDetector", <<name>>, FALSE, <<>>)
    /\ UNCHANGED <<components, detections, collected, api, mw, procs>>

Idle == [op |-> "", arg |-> <<>>, panicked |-> FALSE, result |-> <<>>, before |-> {}]

\* the state after detector := NewDetector()
Init ==
    /\ detectorFuncs = getDefaultDetectors
    /\ components = Nil
    /\ detections = Nil
    /\ collected = FALSE
    /\ hist = <<>>
    /\ ret = [Idle EXCEPT !.op = "NewDetector"]
    /\ api = Idle
    /\ mw = Idle
    /\ procs = <<>>

Next ==
    \/ NewDetector
    \/ \E c \in CustomMaps : NewDetectorWithCustomDetectors(c)
    \/ \E req \in DetectorRequests : Collect(req)
    \/ Detect
    \/ \E in \in AddInputs : AddDetector(in[1], in[2])
    \/ \E name \in CustomNames : RemoveDetector(name)

Spec == Init /\ [][Next]_vars

(***************************************************************************)
(* browser.go: the browser parser                                          *)
(***************************************************************************)
BrowserUnknown == "unknown"
BrowserChrome == "chrome"
BrowserFirefox == "firefox"
BrowserSafari == "safari"
BrowserEdge == "edge"
BrowserOpera == "opera"
BrowserIE == "ie"
BrowserYandex == "yandex"
BrowserVivaldi == "vivaldi"
BrowserBrave == "brave"
BrowserSamsung == "samsung"
BrowserUCBrowser == "ucbrowser"

BrowserInfo(name, version, rawUA, isBot, botKind) ==
    [Name |-> name, Version |-> version, RawUA |-> rawUA, IsBot |-> isBot, BotKind |-> botKind]

IsDigit(c) == IsCharOf(c, Digits)
IsLowerAlnum(c) == IsCharOf(c, Digits \o LowerLetters)

\* whether [0-9]+(?:\.[0-9]+)* can match in s from position p on
StartsVersion(s, p) == p >= 1 /\ p <= Len(s) /\ IsDigit(CharAt(s, p))

\* the last position of the longest match of [0-9]+(?:\.[0-9]+)* that starts
\* at position p of s, where s[p] is a digit
RECURSIVE VersionEnd(_, _)
VersionEnd(s, p) ==
    IF StartsVersion(s, p + 1) THEN VersionEnd(s, p + 1)
    ELSE IF p + 1 <= Len(s) /\ CharAt(s, p + 1) = "." /\ StartsVersion(s, p + 2)
         THEN VersionEnd(s, p + 2)
         ELSE p

\* whether `.*` can match s[from..to]: `.` matches no line feed
DotStar(s, from, to) == \A k \in from..to : CharAt(s, k) # "\n"

\* A pattern of parseBrowserNameAndVersion has the shape
\*     head [0-9a-z]+? (.* gap)? ([0-9]+(?:\.[0-9]+)*) (.* tail)?
\* with head an alternation of literals.  VersionStarts(s, pat, i) is the set
\* of positions at which the version group can start when the match starts
\* at position i of s.
VersionStarts(s, pat, i) ==
    {p \in 1..Len(s) :
        \E lit \in pat.head :
            LET after == i + Len(lit)
            IN  /\ MatchAt(s, i, lit)
                /\ StartsVersion(s, p)
                /\ IF pat.gap = ""
                   THEN p = after
                   ELSE /\ p - Len(pat.gap) >= after + (IF pat.alnum THEN 1 ELSE 0)
                        /\ MatchAt(s, p - Len(pat.gap), pat.gap)
                        /\ pat.alnum => IsLowerAlnum(CharAt(s, after))
                        /\ DotStar(s, after, p - Len(pat.gap) - 1)
                /\ pat.tail # "" =>
                      \E j \in (VersionEnd(s, p) + 1)..Len(s) :
                          MatchAt(s, j, pat.tail) /\ DotStar(s, VersionEnd(s, p) + 1, j - 1)}

\* the least and the greatest element of a non-empty set of numbers
Least(S) == CHOOSE a \in S : \A b \in S : a <= b
Greatest(S) == CHOOSE a \in S : \A b \in S : a >= b

\* the text of the version group that starts at position p of s
VersionAt(s, p) == SubSeq(s, p, VersionEnd(s, p))

\* regexp.FindStringSubmatch(ua)[1]: the match starts at the leftmost
\* position that allows one, the greedy `.*` before the version group takes
\* the last position it can, and the version group takes the longest run;
\* Nil when the pattern does not match
FindVersionFrom(s, pat, starts) ==
    IF starts = {} THEN Nil
    ELSE Ptr(VersionAt(s, Greatest(VersionStarts(s, pat, Least(starts)))))

FindVersion(s, pat) ==
    FindVersionFrom(s, pat, {i \in 1..Len(s) : VersionStarts(s, pat, i) # {}})

Pattern(name, head, alnum, gap, tail) ==
    [name |-> name, head |-> head, alnum |-> alnum, gap |-> gap, tail |-> tail]

\* patterns with the Chrome patterns moved before the Edge pattern
patternsChromeFirst ==
    <<Pattern(BrowserChrome, {"chrome/"}, FALSE, "", ""),
      Pattern(BrowserChrome, {"chromium/"}, FALSE, "", ""),
      Pattern(BrowserEdge, {"edg/", "edge/", "edga/", "edgios/"}, FALSE, "", ""),
      Pattern(BrowserYandex, {"yabrowser/"}, FALSE, "", ""),
      Pattern(BrowserVivaldi, {"vivaldi/"}, FALSE, "", ""),
      Pattern(BrowserBrave, {"brave/"}, FALSE, "", ""),
      Pattern(BrowserSamsung, {"samsungbrowser/"}, FALSE, "", ""),
      Pattern(BrowserUCBrowser, {"ucbrowser/"}, FALSE, "", ""),
      Pattern(BrowserOpera, {"opera/", "opr/"}, FALSE, "", ""),
      Pattern(BrowserOpera, {"version/"}, FALSE, "", "opera"),
      Pattern(BrowserFirefox, {"firefox/"}, FALSE, "", ""),
      Pattern(BrowserFirefox, {"fxios/"}, FALSE, "", ""),
      Pattern(BrowserSafari, {"version/"}, FALSE, "", "safari"),
      Pattern(BrowserSafari, {"mobile/"}, TRUE, "safari/", ""),
      Pattern(BrowserIE, {"msie "}, FALSE, "", ""),
      Pattern(BrowserIE, {"trident/"}, FALSE, "rv:", "")>>

patterns ==
    <<Pattern(BrowserEdge, {"edg/", "edge/", "edga/", "edgios/"}, FALSE, "", ""),
      Pattern(BrowserYandex, {"yabrowser/"}, FALSE, "", ""),
      Pattern(BrowserVivaldi, {"vivaldi/"}, FALSE, "", ""),
      Pattern(BrowserBrave, {"brave/"}, FALSE, "", ""),
      Pattern(BrowserSamsung, {"samsungbrowser/"}, FALSE, "", ""),
      Pattern(BrowserUCBrowser, {"ucbrowser/"}, FALSE, "", ""),
      Pattern(BrowserOpera, {"opera/", "opr/"}, FALSE, "", ""),
      Pattern(BrowserOpera, {"version/"}, FALSE, "", "opera"),
      Pattern(BrowserChrome, {"chrome/"}, FALSE, "", ""),
      Pattern(BrowserChrome, {"chromium/"}, FALSE, "", ""),
      Pattern(BrowserFirefox, {"firefox/"}, FALSE, "", ""),
      Pattern(BrowserFirefox, {"fxios/"}, FALSE, "", ""),
      Pattern(BrowserSafari, {"version/"}, FALSE, "", "safari"),
      Pattern(BrowserSafari, {"mobile/"}, TRUE, "safari/", ""),
      Pattern(BrowserIE, {"msie "}, FALSE, "", ""),
      Pattern(BrowserIE, {"trident/"}, FALSE, "rv:", "")>>

fallbackPatterns == <<BrowserSafari, BrowserChrome, BrowserFirefox, BrowserOpera, BrowserEdge>>

\* cleanSafariVersion returns the version it is given on both of its paths
cleanSafariVersion(version, ua) == version

\* the first loop of parseBrowserNameAndVersion found the pattern p
PatternResult(p, version, ua) ==
    <<p.name, IF p.name = BrowserSafari THEN cleanSafariVersion(version, ua) ELSE version>>

\* the second loop of parseBrowserNameAndVersion; fallbacks are the indexes
\* of the fallback patterns that ua contains
FallbackResult(fallbacks) ==
    IF fallbacks # {}
    THEN <<fallbackPatterns[Least(fallbacks)], "">>
    ELSE <<BrowserUnknown, "">>

\* parseBrowserNameAndVersion on the lower-cased user agent; versions[i] is
\* what pattern i finds in ua
FirstPattern(ua, versions) ==
    IF \E i \in 1..Len(patterns) : versions[i] # Nil
    THEN PatternResult(patterns[Least({i \in 1..Len(patterns) : versions[i] # Nil})],
                       Deref(versions[Least({i \in 1..Len(patterns) : versions[i] # Nil})]), ua)
    ELSE FallbackResult({i \in 1..Len(fallbackPatterns) : Contains(ua, fallbackPatterns[i])})

AllVersions(ua) == [i \in 1..Len(patterns) |-> FindVersion(ua, patterns[i])]

\* parseBrowserNameAndVersion from `ua = strings.ToLower(ua)` on: <<name, version>>
BrowserNameAndVersion(userAgent) == FirstPattern(ToLower(userAgent), AllVersions(ToLower(userAgent)))

\* BrowserNameAndVersion on the user agents of the model, evaluated once
KnownBrowsers == {<<ua, BrowserNameAndVersion(ua)>> : ua \in ParserInputs}

\* parseBrowserNameAndVersion on a user agent of the model
parseBrowserNameAndVersion(ua) == (CHOOSE known \in KnownBrowsers : known[1] = ua)[2]

(***************************************************************************)
(* the package-level API                                                   *)
(***************************************************************************)
\* IsBotUserAgent: <<bot, kind>>
IsBotUserAgent(userAgent) ==
    LET req == [Method |-> "GET", Header |-> MapSet(NoHeaders, "User-Agent", <<userAgent>>),
                ContentLength |-> 0, Path |-> "/", RawQuery |-> "", RemoteAddr |-> ""]
        result == detectUserAgent(collectAllSources(req))
    IN  IF result.Bot THEN <<TRUE, result.BotKind>> ELSE <<FALSE, "">>

\* a variant of GPTAgentOf that knows the OpenAI kinds only
GPTAgentOfOpenAIOnly(bot) ==
    IF ~bot[1] THEN <<FALSE, "">>
    ELSE IF bot[2] \in {BotKindGPTBot, BotKindChatGPT, BotKindOpenAI}
         THEN <<TRUE, bot[2]>>
         ELSE <<FALSE, "">>

\* IsGPTAgent from `isBot, botKind := IsBotUserAgent(userAgent)` on
GPTAgentOf(bot) ==
    IF ~bot[1] THEN <<FALSE, "">>
    ELSE IF bot[2] \in {BotKindGPTBot, BotKindChatGPT, BotKindOpenAI, BotKindClaude,
                        BotKindAIAgent}
         THEN <<TRUE, bot[2]>>
         ELSE <<FALSE, "">>

\* IsGPTAgent: <<isGPT, kind>>
IsGPTAgent(userAgent) == GPTAgentOf(IsBotUserAgent(userAgent))

\* ParseBrowserFromUserAgent after `ua := strings.TrimSpace(userAgent)`;
\* bot is what IsBotUserAgent(ua) returns
ParsedBrowser(ua, bot) ==
    IF bot[1]
    THEN BrowserInfo(BrowserUnknown, "", ua, TRUE, bot[2])
    ELSE [BrowserInfo("", "", ua, FALSE, "") EXCEPT
             !.Name = parseBrowserNameAndVersion(ua)[1], !.Version = parseBrowserNameAndVersion(ua)[2]]

ParseBrowserFromUserAgent(userAgent) ==
    IF userAgent = ""
    THEN BrowserInfo(BrowserUnknown, "", userAgent, FALSE, "")
    ELSE ParsedBrowser(TrimSpace(userAgent), IsBotUserAgent(TrimSpace(userAgent)))

ParseBrowserFromRequest(req) == ParseBrowserFromUserAgent(HeaderGet(req, "User-Agent"))

ParseBrowser(userAgent) == ParseBrowserFromUserAgent(userAgent)

\* d.DetectFromRequest(req) on a detector with the registry funcs: the
\* verdicts it can return (Collect returns no error)
DetectFromRequest(funcs, req) ==
    {o.result : o \in DetectOutcomes(funcs, collectAllSources(req))}

quickDetectors ==
    [name \in {"userAgent", "missingHeaders"} |->
        IF name = "userAgent" THEN "detectUserAgent" ELSE "detectMissingHeaders"]

\* GetBrowserInfo: the browser info it returns next to the verdict botResult
UpdatedBrowserInfo(browserInfo, botResult) ==
    IF botResult.Bot /\ ~browserInfo.IsBot
    THEN [browserInfo EXCEPT !.IsBot = TRUE, !.BotKind = botResult.BotKind]
    ELSE browserInfo

ApiCall(op, arg, result) ==
    [op |-> op, arg |-> arg, panicked |-> FALSE, result |-> result, before |-> {}]

\* the package-level Detect(req)
PackageDetect(req) ==
    /\ \E result \in DetectFromRequest(getDefaultDetectors, req) :
          api' = ApiCall("Detect", <<req>>, <<result, Nil>>)
    /\ UNCHANGED <<components, detections, detectorFuncs, ret, hist, collected, mw, procs>>

QuickCheck(req) ==
    /\ \E result \in DetectFromRequest(MergeCustom(quickDetectors), req) :
          api' = ApiCall("QuickCheck", <<req>>, <<result, Nil>>)
    /\ UNCHANGED <<components, detections, detectorFuncs, ret, hist, collected, mw, procs>>

GetBrowserInfo(req) ==
    /\ \E botResult \in DetectFromRequest(getDefaultDetectors, req) :
          api' = ApiCall("GetBrowserInfo", <<req>>,
                         <<UpdatedBrowserInfo(ParseBrowserFromRequest(req), botResult), botResult, Nil>>)
    /\ UNCHANGED <<components, detections, detectorFuncs, ret, hist, collected, mw, procs>>

CallParseBrowserFromRequest(req) ==
    /\ api' = ApiCall("ParseBrowserFromRequest", <<req>>, <<ParseBrowserFromRequest(req)>>)
    /\ UNCHANGED <<components, detections, detectorFuncs, ret, hist, collected, mw, procs>>

CallParseBrowserFromUserAgent(userAgent) ==
    /\ api' = ApiCall("ParseBrowserFromUserAgent", <<userAgent>>, <<ParseBrowserFromUserAgent(userAgent)>>)
    /\ UNCHANGED <<components, detections, detectorFuncs, ret, hist, collected, mw, procs>>

CallParseBrowser(userAgent) ==
    /\ api' = ApiCall("ParseBrowser", <<userAgent>>, <<ParseBrowser(userAgent)>>)
    /\ UNCHANGED <<components, detections, detectorFuncs, ret, hist, collected, mw, procs>>

CallIsBotUserAgent(userAgent) ==
    /\ api' = ApiCall("IsBotUserAgent", <<userAgent>>, IsBotUserAgent(userAgent))
    /\ UNCHANGED <<components, detections, detectorFuncs, ret, hist, collected, mw, procs>>

CallIsGPTAgent(userAgent) ==
    /\ api' = ApiCall("IsGPTAgent", <<userAgent>>, IsGPTAgent(userAgent))
    /\ UNCHANGED <<components, detections, detectorFuncs, ret, hist, collected, mw, procs>>

\* the custom maps the package-level calls build a detector with
ApiCustomMaps ==
    {[name \in {"test"} |-> "kindWithoutBot"], [name \in {"test"} |-> "nilDetector"],
     [name \in {"userAgent"} |-> "kindWithoutBot"]}

\* NewDetectorWithCustomDetectors(customDetectors).DetectFromRequest(req)
\* on a detector of its own
CustomDetectFromRequest(customDetectors, req) ==
    /\ \E result \in DetectFromRequest(MergeCustom(customDetectors), req) :
          api' = ApiCall("DetectFromRequest", <<customDetectors, req>>, <<result, Nil>>)
    /\ UNCHANGED <<components, detections, detectorFuncs, ret, hist, collected, mw, procs>>

\* unicode.ToUpper on one ASCII character
UpperChar(c) ==
    IF IsCharOf(c, LowerLetters)
    THEN CharAt(UpperLetters, CHOOSE i \in 1..Len(LowerLetters) : CharAt(LowerLetters, i) = c)
    ELSE c

\* the canonical form req.Header.Add gives a key made of letters, digits and
\* hyphens: upper case at the start and after a hyphen, lower case elsewhere
RECURSIVE CanonicalHeaderKey(_, _)
CanonicalHeaderKey(key, i) ==
    IF i > Len(key) THEN ""
    ELSE (IF i = 1 \/ CharAt(key, i - 1) = "-" THEN UpperChar(CharAt(key, i))
          ELSE LowerChar(CharAt(key, i)))
            \o CanonicalHeaderKey(key, i + 1)

\* the request AnalyzeHeaders builds: every value of headers added under the
\* canonical form of its key; a key with no value adds nothing.  No two keys
\* of a header map of the model have the same canonical form.
AnalyzeRequest(headers) ==
    [Method        |-> "GET",
     Header        |-> [k \in {CanonicalHeaderKey(h, 1) :
                                  h \in {g \in DOMAIN headers : Len(headers[g]) > 0}} |->
                          headers[CHOOSE h \in DOMAIN headers : CanonicalHeaderKey(h, 1) = k]],
     ContentLength |-> 0,
     Path          |-> "/",
     RawQuery      |-> "",
     RemoteAddr    |-> ""]

\* a variant of headerDetectors without the entry "headers"
headerDetectorsWithoutHeaders ==
    [name \in {"headerCount", "missingHeaders", "acceptHeaders", "connection"} |->
        CASE name = "headerCount"    -> "detectHeaderCount"
          [] name = "missingHeaders" -> "detectMissingHeaders"
          [] name = "acceptHeaders"  -> "detectAcceptHeaders"
          [] name = "connection"     -> "detectConnection"]

headerDetectors ==
    [name \in {"headers", "headerCount", "missingHeaders", "acceptHeaders", "connection"} |->
        CASE name = "headers"        -> "detectHeaders"
          [] name = "headerCount"    -> "detectHeaderCount"
          [] name = "missingHeaders" -> "detectMissingHeaders"
          [] name = "acceptHeaders"  -> "detectAcceptHeaders"
          [] name = "connection"     -> "detectConnection"]

\* the bot results among returned, the results of the header detectors
BotResults(returned) == {Deref(r) : r \in {q \in returned : q # Nil /\ Deref(q).Bot}}

\* the loop of AnalyzeHeaders returns the first bot result it meets: in some
\* order of the map, each bot result is the first one
FirstBotResult(bots) == IF bots = {} THEN {BotDetectionResult(FALSE, "")} ELSE bots

\* every verdict AnalyzeHeaders(headers) can return
AnalyzeHeaders(headers) ==
    FirstBotResult(BotResults(
        {RunDetector(headerDetectors[name], collectAllSources(AnalyzeRequest(headers)))
            : name \in DOMAIN headerDetectors}))

\* the header maps AnalyzeHeaders is called with
AnalyzeInputs ==
    {MapSet(NoHeaders, "Chrome-Proxy", <<"1">>),
     NoHeaders,
     BrowserHeaders,
     MapSet(BrowserHeaders, "User-Agent", <<ChromeUA>>),
     MapSet(MapSet(BrowserHeaders, "User-Agent", <<ChromeUA>>), "purpose", <<"prefetch">>),
     MapSet(MapSet(BrowserHeaders, "User-Agent", <<ChromeUA>>), "Purpose", <<>>),
     MapSet(MapSet(BrowserHeaders, "User-Agent", <<ChromeUA>>), "Connection", <<"Upgrade">>),
     MapSet(AjaxHeaders, "User-Agent", <<ChromeUA>>),
     MapSet(MapSet(NoHeaders, "User-Agent", <<"Mozilla/5.0">>), "Accept", <<"*/*">>)}

CallAnalyzeHeaders(headers) ==
    /\ \E result \in AnalyzeHeaders(headers) :
          api' = ApiCall("AnalyzeHeaders", <<headers>>, <<result>>)
    /\ UNCHANGED <<components, detections, detectorFuncs, ret, hist, collected, mw, procs>>

NextApi ==
    \/ \E req \in Requests : PackageDetect(req)
    \/ \E req \in Requests : QuickCheck(req)
    \/ \E req \in Requests : GetBrowserInfo(req)
    \/ \E req \in Requests : CallParseBrowserFromRequest(req)
    \/ \E userAgent \in ParserInputs : CallParseBrowserFromUserAgent(userAgent)
    \/ \E userAgent \in ParserInputs : CallParseBrowser(userAgent)
    \/ \E userAgent \in ParserInputs : CallIsBotUserAgent(userAgent)
    \/ \E userAgent \in ParserInputs : CallIsGPTAgent(userAgent)
    \/ \E headers \in AnalyzeInputs : CallAnalyzeHeaders(headers)
    \/ \E customDetectors \in ApiCustomMaps : \E req \in Requests :
          CustomDetectFromRequest(customDetectors, req)

SpecApi == Init /\ [][NextApi]_vars

(***************************************************************************)
(* the request context: context.WithValue / ctx.Value and the two keys of  *)
(* types.go.  A context is the map from the keys set on it to their values.*)
(***************************************************************************)
DetectionResultKey == "gogobot_detection_result"
ComponentsKey == "gogobot_components"

\* r.Context() of a request no value was stored in
EmptyContext == [k \in {} |-> Nil]

WithValue(ctx, key, val) ==
    [k \in DOMAIN ctx \cup {key} |-> IF k = key THEN val ELSE ctx[k]]

\* result, ok := ctx.Value(DetectionResultKey).(*BotDetectionResult)
GetResultFromContext(ctx) ==
    IF DetectionResultKey \in DOMAIN ctx THEN <<ctx[DetectionResultKey], TRUE>>
    ELSE <<Nil, FALSE>>

\* components, ok := ctx.Value(ComponentsKey).(*ComponentDict)
GetComponentsFromContext(ctx) ==
    IF ComponentsKey \in DOMAIN ctx THEN <<ctx[ComponentsKey], TRUE>>
    ELSE <<Nil, FALSE>>

(***************************************************************************)
(* middleware.go: the handler MiddlewareWithConfig(config)(next) returns.  *)
(* mw records the last request it served: the configuration, the request,  *)
(* the calls the handler made (to next, OnBotDetected or OnError, each     *)
(* with the context of the request it was handed and its third argument),  *)
(* and the response.                                                       *)
(***************************************************************************)
StatusOK == 200
StatusForbidden == 403

MiddlewareConfig(skipFunc, onBotDetected, onError, blockBots, blockedStatusCode, blockedMessage) ==
    [SkipFunc |-> skipFunc, OnBotDetected |-> onBotDetected, OnError |-> onError,
     BlockBots |-> blockBots, BlockedStatusCode |-> blockedStatusCode,
     BlockedMessage |-> blockedMessage]

DefaultMiddlewareConfig ==
    MiddlewareConfig(Nil, Nil, Nil, FALSE, StatusForbidden, "Bot traffic is not allowed")

\* the configurations a caller passes.  The callbacks: skipHealth skips the
\* path /health; logBot and logError write a log line and no response;
\* rejectBot answers 418 "custom bot response".
Configs ==
    {MiddlewareConfig(skipFunc, onBotDetected, onError, blockBots, blockedStatusCode, blockedMessage) :
        skipFunc \in {Nil, Ptr("skipHealth")},
        onBotDetected \in {Nil, Ptr("logBot"), Ptr("rejectBot")},
        onError \in {Nil, Ptr("logError")},
        blockBots \in BOOLEAN,
        blockedStatusCode \in {0, 429},
        blockedMessage \in {"", "Bot blocked"}}
        \cup {DefaultMiddlewareConfig}

RunSkipFunc(f, req) == f = "skipHealth" /\ req.Path = "/health"

\* the requests the middleware is driven with
MiddlewareRequests ==
    {NewRequest("GET", BrowserHeaders, ChromeUA, 0),
     NewRequest("GET", NoHeaders, CurlUA, 0),
     [NewRequest("GET", NoHeaders, CurlUA, 0) EXCEPT !.Path = "/health"]}

\* a call the handler makes: the function, the context of the request it
\* passes, and the third argument (the verdict or the error; Nil for next)
HandlerCall(fn, ctx, arg) == [fn |-> fn, ctx |-> ctx, arg |-> arg]

\* what the handler leaves: a handler that returns without writing answers
\* 200 with an empty body
Served(config, req, calls, status, body) ==
    [op |-> "ServeHTTP", config |-> config, req |-> req,
     calls |-> calls, status |-> status, body |-> body]

\* next.ServeHTTP(w, r): the wrapped handler answers 200 "success"
NextServeHTTP(config, req, ctx) ==
    Served(config, req, <<HandlerCall("next", ctx, Nil)>>, StatusOK, "success")

\* http.Error(w, message, statusCode)
HttpError(config, req, message, statusCode) ==
    Served(config, req, <<>>, statusCode, message \o "\n")

\* a variant of RunOnBotDetected in which the handler goes on to next after
\* the callback
RunOnBotDetectedThenNext(f, config, req, ctx, result) ==
    Served(config, req,
           <<HandlerCall("OnBotDetected", ctx, Ptr(result)), HandlerCall("next", ctx, Nil)>>,
           StatusOK, "success")

\* config.OnBotDetected(w, r, &result); return
RunOnBotDetected(f, config, req, ctx, result) ==
    IF f = "rejectBot"
    THEN Served(config, req, <<HandlerCall("OnBotDetected", ctx, Ptr(result))>>,
                418, "custom bot response")
    ELSE Served(config, req, <<HandlerCall("OnBotDetected", ctx, Ptr(result))>>,
                StatusOK, "")

\* config.OnError(w, r, err); return
RunOnError(f, config, req, err) ==
    Served(config, req, <<HandlerCall("OnError", EmptyContext, err)>>, StatusOK, "")

\* a variant of StoreInContext that stores both values under one key
StoreInContextOneKey(result, comps) ==
    WithValue(WithValue(EmptyContext, DetectionResultKey, Ptr(result)),
              DetectionResultKey, comps)

\* ctx := context.WithValue(r.Context(), DetectionResultKey, &result)
\* ctx = context.WithValue(ctx, ComponentsKey, d.GetComponents())
StoreInContext(result, comps) ==
    WithValue(WithValue(EmptyContext, DetectionResultKey, Ptr(result)),
              ComponentsKey, comps)

\* a variant of HandleBot whose block branch does not return: the handler
\* goes on to next after http.Error
HandleBotBlockFallsThrough(config, req, result, ctx) ==
    IF result.Bot /\ config.OnBotDetected # Nil
    THEN RunOnBotDetected(Deref(config.OnBotDetected), config, req, ctx, result)
    ELSE IF result.Bot /\ config.BlockBots
         THEN Served(config, req, <<HandlerCall("next", ctx, Nil)>>,
                     IF config.BlockedStatusCode = 0 THEN StatusForbidden
                     ELSE config.BlockedStatusCode,
                     (IF config.BlockedMessage = "" THEN "Bot traffic is not allowed"
                      ELSE config.BlockedMessage) \o "\n" \o "success")
         ELSE NextServeHTTP(config, req, ctx)

\* the handler from the bot handling on, with the context ctx on the request
HandleBot(config, req, result, ctx) ==
    IF result.Bot /\ config.OnBotDetected # Nil
    THEN RunOnBotDetected(Deref(config.OnBotDetected), config, req, ctx, result)
    ELSE IF result.Bot /\ config.BlockBots
         THEN HttpError(config, req,
                        IF config.BlockedMessage = "" THEN "Bot traffic is not allowed"
                        ELSE config.BlockedMessage,
                        IF config.BlockedStatusCode = 0 THEN StatusForbidden
                        ELSE config.BlockedStatusCode)
         ELSE NextServeHTTP(config, req, ctx)

\* the handler from `result, err := d.DetectFromRequest(r)` on; comps is
\* what d.GetComponents() returns, the detector's components field
AfterDetection(config, req, result, err, comps) ==
    IF err # Nil
    THEN IF config.OnError # Nil
         THEN RunOnError(Deref(config.OnError), config, req, err)
         ELSE NextServeHTTP(config, req, EmptyContext)
    ELSE HandleBot(config, req, result, StoreInContext(result, comps))

\* a variant of ServeHTTP that consults SkipFunc only after the detection
ServeHTTPSkipAfterDetection(config, req) ==
    \E o \in DetectOutcomes(detectorFuncs, collectAllSources(req)) :
        /\ components' = Ptr(collectAllSources(req))
        /\ collected' = TRUE
        /\ detections' = Ptr(o.detections)
        /\ hist' = <<o.result>>
        /\ ret' = Call("DetectFromRequest", <<req>>, FALSE, <<o.result, Nil>>)
        /\ mw' = IF config.SkipFunc # Nil /\ RunSkipFunc(Deref(config.SkipFunc), req)
                 THEN NextServeHTTP(config, req, EmptyContext)
                 ELSE AfterDetection(config, req, o.result, Nil, components')
        /\ UNCHANGED <<detectorFuncs, api, procs>>

\* one request through d.MiddlewareWithConfig(config)(next); the detection
\* runs on the detector d itself: Collect, then Detect
ServeHTTP(config, req) ==
    IF config.SkipFunc # Nil /\ RunSkipFunc(Deref(config.SkipFunc), req)
    THEN /\ mw' = NextServeHTTP(config, req, EmptyContext)
         /\ UNCHANGED <<components, detections, detectorFuncs, ret, hist, collected, api, procs>>
    ELSE \E o \in DetectOutcomes(detectorFuncs, collectAllSources(req)) :
            /\ components' = Ptr(collectAllSources(req))
            /\ collected' = TRUE
            /\ detections' = Ptr(o.detections)
            /\ hist' = <<o.result>>
            /\ ret' = Call("DetectFromRequest", <<req>>, FALSE, <<o.result, Nil>>)
            /\ mw' = AfterDetection(config, req, o.result, Nil, components')
            /\ UNCHANGED <<detectorFuncs, api, procs>>

NextMiddleware == \E config \in Configs : \E req \in MiddlewareRequests : ServeHTTP(config, req)

SpecMiddleware == Init /\ [][NextMiddleware]_vars

(***************************************************************************)
(* browser.go: compareVersions and parseVersionPart                        *)
(***************************************************************************)
\* strings.Split(s, "."): the parts between the dots; one part, s itself,
\* when s has no dot
RECURSIVE SplitDots(_)
SplitDots(s) ==
    IF \E i \in 1..Len(s) : CharAt(s, i) = "."
    THEN <<SubSeq(s, 1, Least({i \in 1..Len(s) : CharAt(s, i) = "."}) - 1)>>
            \o SplitDots(SubSeq(s, Least({i \in 1..Len(s) : CharAt(s, i) = "."}) + 1, Len(s)))
    ELSE <<s>>

\* int(char - '0')
DigitValue(char) == CHOOSE d \in 0..9 : CharAt("0123456789", d + 1) = char

\* the loop of parseVersionPart over the digits of match.  The versions of
\* the model have fewer digits than an int overflows with.
RECURSIVE DigitsValue(_)
DigitsValue(match) ==
    IF match = "" THEN 0
    ELSE DigitsValue(SubSeq(match, 1, Len(match) - 1)) * 10
            + DigitValue(CharAt(match, Len(match)))

\* the last position of the run of digits that starts at position p of s
RECURSIVE DigitRunEnd(_, _)
DigitRunEnd(s, p) ==
    IF p < Len(s) /\ IsDigit(CharAt(s, p + 1)) THEN DigitRunEnd(s, p + 1) ELSE p

\* re.FindString(part) for the pattern \d+: the leftmost run of digits,
\* taken as long as it goes; "" when part has no digit
FirstDigits(part) ==
    IF \E i \in 1..Len(part) : IsDigit(CharAt(part, i))
    THEN SubSeq(part, Least({i \in 1..Len(part) : IsDigit(CharAt(part, i))}),
                DigitRunEnd(part, Least({i \in 1..Len(part) : IsDigit(CharAt(part, i))})))
    ELSE ""

\* a variant of parseVersionPart that reads the first digit only
parseVersionPartFirstDigit(part) ==
    IF FirstDigits(part) = "" THEN 0 ELSE DigitValue(CharAt(FirstDigits(part), 1))

parseVersionPart(part) ==
    IF FirstDigits(part) = "" THEN 0 ELSE DigitsValue(FirstDigits(part))

\* p1 or p2 of the loop body at index i (from 1): 0 beyond the parts
VersionPart(parts, i) == IF i <= Len(parts) THEN parseVersionPart(parts[i]) ELSE 0

\* the loop of compareVersions: the first index at which the parts differ
\* decides
CompareParts(parts1, parts2, differing) ==
    IF differing = {} THEN 0
    ELSE IF VersionPart(parts1, Least(differing)) < VersionPart(parts2, Least(differing))
         THEN -1
         ELSE 1

MaxParts(parts1, parts2) == IF Len(parts2) > Len(parts1) THEN Len(parts2) ELSE Len(parts1)

SplitAndCompare(parts1, parts2) ==
    CompareParts(parts1, parts2,
                 {i \in 1..MaxParts(parts1, parts2) :
                     VersionPart(parts1, i) # VersionPart(parts2, i)})

compareVersions(v1, v2) ==
    IF v1 = v2 THEN 0 ELSE SplitAndCompare(SplitDots(v1), SplitDots(v2))

\* the version strings compared: every string of at most MaxVersionLen
\* characters over VersionChars, and the versions of the tests
MaxVersionLen == 2
VersionChars == {"0", "1", "."}

RECURSIVE StringsOfLen(_)
StringsOfLen(n) ==
    IF n = 0 THEN {""} ELSE {s \o c : s \in StringsOfLen(n - 1), c \in VersionChars}

TestVersions ==
    {"1.0.0", "1.0.1", "2.0.0", "1.9.9", "1.10.0", "1.9.0", "120.0.0.0", "119.0.0.0",
     "1.0", "0.0", "0.1", "1.1", "0.0.0", "1a2", "12", "2", "a"}

Versions == UNION {StringsOfLen(n) : n \in 0..MaxVersionLen} \cup TestVersions

\* a caller picks two versions, then compares them
InitVersions ==
    /\ detectorFuncs = getDefaultDetectors
    /\ components = Nil
    /\ detections = Nil
    /\ collected = FALSE
    /\ hist = <<>>
    /\ ret = [Idle EXCEPT !.op = "NewDetector"]
    /\ mw = Idle
    /\ procs = <<>>
    /\ \E v1 \in Versions : \E v2 \in Versions : api = [Idle EXCEPT !.arg = <<v1, v2>>]

CallCompareVersions ==
    /\ api.op = ""
    /\ api' = ApiCall("compareVersions", api.arg,
                      <<compareVersions(api.arg[1], api.arg[2])>>)
    /\ UNCHANGED <<components, detections, detectorFuncs, ret, hist, collected, mw, procs>>

NextVersions == CallCompareVersions

SpecVersions == InitVersions /\ [][NextVersions]_vars

(***************************************************************************)
(* detectUserAgent on its own: a caller picks a user agent made of two     *)
(* product tokens, then the detector runs on the bag of a request with it. *)
(***************************************************************************)
\* one token per group of specificBots, a suspicious one and a browser's
ProductTokens ==
    {"GPTBot/1.0", "ChatGPT-User/1.0", "OpenAI", "Claude-Web/1.0", "LLM", "PhantomJS/2.1",
     "Selenium", "Electron/27", "HeadlessChrome/120", "Playwright", "Puppeteer",
     "curl/7.68.0", "Wget/1.20", "Googlebot/2.1", "Spider", "python-requests/2.28",
     "Firefox/120.0"}

TokenPairs == {first \o " " \o second : first \in ProductTokens, second \in ProductTokens}

InitUserAgent ==
    /\ detectorFuncs = getDefaultDetectors
    /\ components = Nil
    /\ detections = Nil
    /\ collected = FALSE
    /\ hist = <<>>
    /\ ret = [Idle EXCEPT !.op = "NewDetector"]
    /\ mw = Idle
    /\ procs = <<>>
    /\ \E userAgent \in TokenPairs : api = [Idle EXCEPT !.arg = <<userAgent>>]

CallDetectUserAgent ==
    /\ api.op = ""
    /\ api' = ApiCall("detectUserAgent", api.arg,
                      <<detectUserAgent(collectAllSources(
                            NewRequest("GET", NoHeaders, api.arg[1], 0)))>>)
    /\ UNCHANGED <<components, detections, detectorFuncs, ret, hist, collected, mw, procs>>

NextUserAgent == CallDetectUserAgent

SpecUserAgent == InitUserAgent /\ [][NextUserAgent]_vars

(***************************************************************************)
(* parseBrowserNameAndVersion on its own: a caller picks a user agent made *)
(* of two browser tokens, then the parser runs on it.                      *)
(***************************************************************************)
\* one product token per browser of patterns, with the browser and the
\* version it stands for, and a token of no browser
BrowserTokens ==
    {[text |-> "Edg/120.0.2210.91", name |-> BrowserEdge, version |-> "120.0.2210.91"],
     [text |-> "YaBrowser/23.1", name |-> BrowserYandex, version |-> "23.1"],
     [text |-> "Vivaldi/6.2", name |-> BrowserVivaldi, version |-> "6.2"],
     [text |-> "Brave/1.60", name |-> BrowserBrave, version |-> "1.60"],
     [text |-> "SamsungBrowser/21.0", name |-> BrowserSamsung, version |-> "21.0"],
     [text |-> "UCBrowser/13.4", name |-> BrowserUCBrowser, version |-> "13.4"],
     [text |-> "OPR/105.0", name |-> BrowserOpera, version |-> "105.0"],
     [text |-> "Chrome/120.0.0.0", name |-> BrowserChrome, version |-> "120.0.0.0"],
     [text |-> "Firefox/121.0", name |-> BrowserFirefox, version |-> "121.0"],
     [text |-> "Version/17.1 Safari/605.1", name |-> BrowserSafari, version |-> "17.1"],
     [text |-> "MSIE 10.0", name |-> BrowserIE, version |-> "10.0"],
     [text |-> "Mozilla/5.0", name |-> BrowserUnknown, version |-> ""]}

BrowserTokenPairs ==
    {first.text \o " " \o second.text : first \in BrowserTokens, second \in BrowserTokens}

InitBrowser ==
    /\ detectorFuncs = getDefaultDetectors
    /\ components = Nil
    /\ detections = Nil
    /\ collected = FALSE
    /\ hist = <<>>
    /\ ret = [Idle EXCEPT !.op = "NewDetector"]
    /\ mw = Idle
    /\ procs = <<>>
    /\ \E ua \in BrowserTokenPairs : api = [Idle EXCEPT !.arg = <<ua>>]

CallParseBrowserNameAndVersion ==
    /\ api.op = ""
    /\ api' = ApiCall("parseBrowserNameAndVersion", api.arg,
                      <<BrowserNameAndVersion(api.arg[1])>>)
    /\ UNCHANGED <<components, detections, detectorFuncs, ret, hist, collected, mw, procs>>

NextBrowser == CallParseBrowserNameAndVersion

SpecBrowser == InitBrowser /\ [][NextBrowser]_vars

(***************************************************************************)
(* detectMissingHeaders on its own: a caller picks which of the common     *)
(* headers a request carries, then the detector runs on its bag.           *)
(***************************************************************************)
\* a common header is left out, sent with an empty value or sent with a value
HeaderPresence == {"absent", "empty", "set"}

HeaderOf(presence) ==
    [h \in {name \in DOMAIN presence : presence[name] # "absent"} |->
        IF presence[h] = "empty" THEN <<"">> ELSE <<"value">>]

CommonHeaderRequests ==
    {NewRequest("GET", HeaderOf(presence), "", 0) :
        presence \in [{commonHeaders[i] : i \in 1..Len(commonHeaders)} -> HeaderPresence]}

InitMissing ==
    /\ detectorFuncs = getDefaultDetectors
    /\ components = Nil
    /\ detections = Nil
    /\ collected = FALSE
    /\ hist = <<>>
    /\ ret = [Idle EXCEPT !.op = "NewDetector"]
    /\ mw = Idle
    /\ procs = <<>>
    /\ \E req \in CommonHeaderRequests : api = [Idle EXCEPT !.arg = <<req>>]

CallDetectMissingHeaders ==
    /\ api.op = ""
    /\ api' = ApiCall("detectMissingHeaders", api.arg,
                      <<detectMissingHeaders(collectAllSources(api.arg[1]))>>)
    /\ UNCHANGED <<components, detections, detectorFuncs, ret, hist, collected, mw, procs>>

NextMissing == CallDetectMissingHeaders

SpecMissing == InitMissing /\ [][NextMissing]_vars

(***************************************************************************)
(* GetAIAgentInfo and IsGPTRequest: a caller picks a request, then asks    *)
(* one of the two about it.                                                *)
(***************************************************************************)
\* IsGPTRequest: <<isGPT, kind>>
IsGPTRequest(req) == IsGPTAgent(HeaderGet(req, "User-Agent"))

\* GetAIAgentInfo from the verdict botResult of the full detection on:
\* <<isAI, agentType, botResult, err>>
AIAgentInfoOf(botResult) ==
    IF botResult.Bot /\ botResult.BotKind \in {BotKindGPTBot, BotKindChatGPT, BotKindOpenAI,
                                               BotKindClaude, BotKindAIAgent}
    THEN <<TRUE, botResult.BotKind, botResult, Nil>>
    ELSE <<FALSE, "", botResult, Nil>>

\* what GetAIAgentInfo can return for req
GetAIAgentInfo(req) ==
    {AIAgentInfoOf(botResult) : botResult \in DetectFromRequest(getDefaultDetectors, req)}

AgentUserAgents ==
    {GPTBotUA, "ChatGPT-User/1.0", "OpenAI", "Claude-Web/1.0", "LLM", "Selenium GPTBot/1.0",
     "Mozilla/5.0 (compatible; anthropic-ai)", CurlUA, "Googlebot/2.1", "python-requests/2.28",
     ChromeUA, BareUA, ""}

AgentRequests == {NewRequest("GET", h, ua, 0) : h \in HeaderSets, ua \in AgentUserAgents}

InitAgent ==
    /\ detectorFuncs = getDefaultDetectors
    /\ components = Nil
    /\ detections = Nil
    /\ collected = FALSE
    /\ hist = <<>>
    /\ ret = [Idle EXCEPT !.op = "NewDetector"]
    /\ mw = Idle
    /\ procs = <<>>
    /\ \E req \in AgentRequests : api = [Idle EXCEPT !.arg = <<req>>]

CallGetAIAgentInfo ==
    /\ api.op = ""
    /\ \E info \in GetAIAgentInfo(api.arg[1]) : api' = ApiCall("GetAIAgentInfo", api.arg, info)
    /\ UNCHANGED <<components, detections, detectorFuncs, ret, hist, collected, mw, procs>>

CallIsGPTRequest ==
    /\ api.op = ""
    /\ api' = ApiCall("IsGPTRequest", api.arg, IsGPTRequest(api.arg[1]))
    /\ UNCHANGED <<components, detections, detectorFuncs, ret, hist, collected, mw, procs>>

NextAgent == CallGetAIAgentInfo \/ CallIsGPTRequest

SpecAgent == InitAgent /\ [][NextAgent]_vars

(***************************************************************************)
(* One goroutine calls Collect and Detect while another calls AddDetector  *)
(* and RemoveDetector on the same instance.  BotDetector has no lock, so   *)
(* the loop of Detect is a sequence of steps, one per key, between which   *)
(* the other calls run.  procs holds where the Detect goroutine stands     *)
(* (pc),                                                                   *)
(* its locals (l) and the map as it was when its loop began (ranged).      *)
(* Writing a Go map while another goroutine iterates it is a data race:    *)
(* the loop may meet or miss a key added meanwhile, read the old or the    *)
(* new function of a key, or the runtime may stop the program with         *)
(* "concurrent map iteration and map write".                               *)
(***************************************************************************)
RaceRequests ==
    {NewRequest("GET", BrowserHeaders, ChromeUA, 0), NewRequest("GET", NoHeaders, CurlUA, 0)}

\* Detect up to its loop: the nil check and the locals
DetectStart ==
    /\ procs.pc = "idle"
    /\ IF components = Nil
       THEN /\ ret' = Call("Detect", <<>>, TRUE, <<>>)
            /\ UNCHANGED <<components, detections, detectorFuncs, hist, collected, api, mw, procs>>
       ELSE /\ procs' = [pc |-> "range", l |-> DetectLocals, ranged |-> detectorFuncs]
            /\ UNCHANGED <<components, detections, detectorFuncs, ret, hist, collected, api, mw>>

\* one iteration of the loop, on a key of the map not visited yet
DetectVisit(name) ==
    /\ procs.pc = "range"
    /\ name \in DOMAIN detectorFuncs \ procs.l.visited
    /\ \E f \in {detectorFuncs[name]}
                  \cup (IF name \in DOMAIN procs.ranged THEN {procs.ranged[name]} ELSE {}) :
          procs' = [procs EXCEPT !.l = DetectIter(procs.l, name, RunDetector(f, Deref(components)))]
    /\ UNCHANGED <<components, detections, detectorFuncs, ret, hist, collected, api, mw>>

\* the loop ends once every key that was in the map from its start on was
\* visited; then Detect stores the DetectionDict and returns
DetectEnd ==
    /\ procs.pc = "range"
    /\ (DOMAIN procs.ranged \cap DOMAIN detectorFuncs) \subseteq procs.l.visited
    /\ detections' = Ptr(DetectFinish(procs.l).detections)
    /\ ret' = Call("Detect", <<>>, FALSE, <<DetectFinish(procs.l).result>>)
    /\ procs' = [pc |-> "idle", l |-> DetectLocals, ranged |-> detectorFuncs]
    /\ UNCHANGED <<components, detectorFuncs, hist, collected, api, mw>>

\* the runtime notices the write during the iteration and stops the program
DetectCrash ==
    /\ procs.pc = "range"
    /\ procs.ranged # detectorFuncs
    /\ procs' = [procs EXCEPT !.pc = "crashed"]
    /\ UNCHANGED <<components, detections, detectorFuncs, ret, hist, collected, api, mw>>

InitRace ==
    /\ detectorFuncs = getDefaultDetectors
    /\ components = Nil
    /\ detections = Nil
    /\ collected = FALSE
    /\ hist = <<>>
    /\ ret = [Idle EXCEPT !.op = "NewDetector"]
    /\ api = Idle
    /\ mw = Idle
    /\ procs = [pc |-> "idle", l |-> DetectLocals, ranged |-> getDefaultDetectors]

NextRace ==
    /\ procs.pc # "crashed"
    /\ \/ \E req \in RaceRequests : procs.pc = "idle" /\ Collect(req)
       \/ DetectStart
       \/ \E name \in DOMAIN detectorFuncs : DetectVisit(name)
       \/ DetectEnd
       \/ DetectCrash
       \/ AddDetector("test", "seleniumDetector")
       \/ RemoveDetector("test")

SpecRace == InitRace /\ [][NextRace]_vars

(***************************************************************************)
(* Two requests served at the same time by the handler that                *)
(* d.MiddlewareWithConfig(DefaultMiddlewareConfig())(next) returns: each   *)
(* runs in its own goroutine, on the one detector d.  procs[h] is the      *)
(* goroutine h: where it stands in the handler, its request, the verdict   *)
(* d.Detect() returned to it and what it served.  The steps are the calls  *)
(* of the handler that read or write the fields of d.                      *)
(***************************************************************************)
Handlers == {1, 2}

HandlerIdle == [pc |-> "idle", req |-> Nil, result |-> Nil, served |-> Nil]

\* the server hands the request req to the handler
HandlerStart(h, req) ==
    /\ procs[h].pc = "idle"
    /\ procs' = [procs EXCEPT ![h] = [HandlerIdle EXCEPT !.pc = "collect", !.req = Ptr(req)]]
    /\ UNCHANGED <<components, detections, detectorFuncs, ret, hist, collected, api, mw>>

\* d.DetectFromRequest(r): d.Collect(req)
HandlerCollect(h) ==
    /\ procs[h].pc = "collect"
    /\ components' = Ptr(collectAllSources(Deref(procs[h].req)))
    /\ collected' = TRUE
    /\ procs' = [procs EXCEPT ![h].pc = "detect"]
    /\ UNCHANGED <<detections, detectorFuncs, ret, hist, api, mw>>

\* d.DetectFromRequest(r): result := d.Detect()
HandlerDetect(h) ==
    /\ procs[h].pc = "detect"
    /\ \E o \in DetectOutcomes(detectorFuncs, Deref(components)) :
          /\ detections' = Ptr(o.detections)
          /\ procs' = [procs EXCEPT ![h].pc = "context", ![h].result = Ptr(o.result)]
    /\ UNCHANGED <<components, detectorFuncs, ret, hist, collected, api, mw>>

\* the handler from the context on: d.GetComponents(), then the bot handling
HandlerContext(h) ==
    /\ procs[h].pc = "context"
    /\ procs' = [procs EXCEPT
                    ![h].pc = "done",
                    ![h].served = Ptr(HandleBot(DefaultMiddlewareConfig, Deref(procs[h].req),
                                                Deref(procs[h].result),
                                                StoreInContext(Deref(procs[h].result),
                                                               GetComponents)))]
    /\ UNCHANGED <<components, detections, detectorFuncs, ret, hist, collected, api, mw>>

\* the handler returns
HandlerReturn(h) ==
    /\ procs[h].pc = "done"
    /\ procs' = [procs EXCEPT ![h] = HandlerIdle]
    /\ UNCHANGED <<components, detections, detectorFuncs, ret, hist, collected, api, mw>>

InitHandlers ==
    /\ detectorFuncs = getDefaultDetectors
    /\ components = Nil
    /\ detections = Nil
    /\ collected = FALSE
    /\ hist = <<>>
    /\ ret = [Idle EXCEPT !.op = "NewDetector"]
    /\ api = Idle
    /\ mw = Idle
    /\ procs = [h \in Handlers |-> HandlerIdle]

NextHandlers ==
    \E h \in Handlers :
        \/ \E req \in RaceRequests : HandlerStart(h, req)
        \/ HandlerCollect(h)
        \/ HandlerDetect(h)
        \/ HandlerContext(h)
        \/ HandlerReturn(h)

SpecHandlers == InitHandlers /\ [][NextHandlers]_vars

(***************************************************************************)
(* properties of Detect                                                    *)
(***************************************************************************)
\* the last call was a Detect that returned
DetectReturned == ret.op = "Detect" /\ ~ret.panicked

\* the verdict the last Detect returned
Verdict == ret.result[1]

\* the names whose function returns a bot verdict on the bag of the instance
BotNames ==
    {call.name : call \in {k \in DetectorCalls(detectorFuncs, Deref(components)) : ReturnedBot(k)}}

\* what the function registered under name returns on the bag of the instance
Returned(name) == RunDetector(detectorFuncs[name], Deref(components))

\* the names whose function returns a bot verdict of a kind other than unknown
SpecificNames == {name \in BotNames : Deref(Returned(name)).BotKind # BotKindUnknown}

\* C1: when the function registered under "userAgent" returns a bot verdict
\* of a kind other than unknown, Detect returns exactly that verdict,
\* whatever the other detectors return and whatever the order of the loop.
C1_UserAgentSpecificWins ==
    (DetectReturned /\ "userAgent" \in SpecificNames)
        => Verdict = Deref(Returned("userAgent"))

\* C1 case: the user-agent detector and another detector both return a bot
\* verdict of a specific kind, and the two kinds differ
C1_Witness ==
    /\ DetectReturned
    /\ "userAgent" \in SpecificNames
    /\ \E name \in SpecificNames :
          Deref(Returned(name)).BotKind # Deref(Returned("userAgent")).BotKind

\* C2: the verdict of Detect is a bot verdict exactly when at least one
\* registered function returned a non-nil result with Bot = true; a function
\* returning nil counts as not a bot.
C2_BotIffSomeDetectorFires ==
    DetectReturned => (Verdict.Bot <=> BotNames # {})

\* C2 case: a bot verdict whose only firing detectors return the unknown
\* kind, with a function that returns nil in the registry
C2_Witness ==
    /\ DetectReturned
    /\ Verdict.Bot
    /\ SpecificNames = {}
    /\ \E name \in DOMAIN detectorFuncs : Returned(name) = Nil

\* C3: when some function returns a bot verdict of a kind other than
\* unknown, the kind of the verdict of Detect is not unknown, even though
\* other functions returned bot verdicts of the unknown kind.
C3_SpecificKindBeatsUnknown ==
    (DetectReturned /\ SpecificNames # {})
        => (Verdict.Bot /\ Verdict.BotKind # BotKindUnknown)

\* C3 case: a function other than the user-agent one returns a specific kind
\* while another returns the unknown kind
C3_Witness ==
    /\ DetectReturned
    /\ SpecificNames # {}
    /\ "userAgent" \notin SpecificNames
    /\ BotNames \ SpecificNames # {}

\* C4: two Detect calls on the same bag and the same registry return the
\* same verdict.
C4_DetectIsDeterministic ==
    Len(hist) = 2 => hist[1] = hist[2]

\* C20: a bot verdict of the empty kind counts as unclassified in the
\* selection of Detect: it does not replace a selected bot verdict and a
\* later verdict of a specific kind replaces it.  So when some function
\* returned a bot verdict of a kind that is neither empty nor unknown, the
\* verdict of Detect does not have the empty kind.
C20_EmptyKindIsUnclassified ==
    (/\ DetectReturned
     /\ \E name \in BotNames : Deref(Returned(name)).BotKind \notin {"", BotKindUnknown})
        => Verdict.BotKind # ""

(***************************************************************************)
(* properties of the life cycle and of the registry                        *)
(***************************************************************************)
\* C7: Detect on an instance on which Collect was never called panics and
\* returns nothing, whatever AddDetector and RemoveDetector calls came
\* before; once Collect was called, Detect returns a verdict and does not
\* panic.
C7_DetectPanicsIffNeverCollected ==
    ret.op = "Detect" =>
        /\ ret.panicked <=> ~collected
        /\ ret.panicked => (ret.result = <<>> /\ detections = Nil)
        /\ ~ret.panicked => (Len(ret.result) = 1 /\ Verdict.Bot \in BOOLEAN /\ detections # Nil)

\* C7 case: Detect panicked on an instance whose registry was changed by
\* AddDetector or RemoveDetector and on which Collect was never called
C7_Witness ==
    /\ ret.op = "Detect"
    /\ ret.panicked
    /\ ~collected
    /\ detectorFuncs # getDefaultDetectors

\* AddDetector(name, f): name maps to f, every other entry is as before, and
\* the number of names grows by one exactly when name was absent
AddDetectorStep ==
    ret'.op = "AddDetector" =>
        LET name == ret'.arg[1]
        IN  /\ ret'.before = DOMAIN detectorFuncs
            /\ DOMAIN detectorFuncs' = DOMAIN detectorFuncs \cup {name}
            /\ detectorFuncs'[name] = ret'.arg[2]
            /\ \A k \in DOMAIN detectorFuncs \ {name} : detectorFuncs'[k] = detectorFuncs[k]
            /\ Cardinality(DOMAIN detectorFuncs') =
                  Cardinality(DOMAIN detectorFuncs) + (IF name \in DOMAIN detectorFuncs THEN 0 ELSE 1)

\* RemoveDetector(name): name is absent, every other entry is as before, and
\* the number of names shrinks by one exactly when name was present
RemoveDetectorStep ==
    ret'.op = "RemoveDetector" =>
        LET name == ret'.arg[1]
        IN  /\ ret'.before = DOMAIN detectorFuncs
            /\ DOMAIN detectorFuncs' = DOMAIN detectorFuncs \ {name}
            /\ \A k \in DOMAIN detectorFuncs' : detectorFuncs'[k] = detectorFuncs[k]
            /\ Cardinality(DOMAIN detectorFuncs') =
                  Cardinality(DOMAIN detectorFuncs) - (IF name \in DOMAIN detectorFuncs THEN 1 ELSE 0)

\* RemoveDetector(name) right after AddDetector(name, f) of a new name leaves
\* the names the registry held before the AddDetector
AddThenRemoveStep ==
    (ret.op = "AddDetector" /\ ret.arg[1] \notin ret.before
        /\ ret'.op = "RemoveDetector" /\ ret'.arg[1] = ret.arg[1])
        => DOMAIN detectorFuncs' = ret.before

\* C8: the registry holds each name once: AddDetector of a present name
\* replaces its function and keeps the number of names, AddDetector of a new
\* name adds exactly one, RemoveDetector of a present name removes exactly
\* one, RemoveDetector of an absent name changes nothing, and adding a new
\* name and then removing it restores the names.
C8_RegistryNamesUnique ==
    [][AddDetectorStep /\ RemoveDetectorStep /\ AddThenRemoveStep]_vars

\* C8 case: a name that is not a default one was removed after it had been
\* added, and the registry holds the default names again
C8_Witness ==
    /\ ret.op = "RemoveDetector"
    /\ ret.arg[1] \in ret.before
    /\ ret.arg[1] \notin DOMAIN getDefaultDetectors
    /\ DOMAIN detectorFuncs = DOMAIN getDefaultDetectors

\* the eight names of getDefaultDetectors
DefaultNames ==
    {"userAgent", "headers", "headerOrder", "headerCount", "missingHeaders",
     "acceptHeaders", "connection", "contentLength"}

\* the field of the DetectionDict that Detect writes for a default name
DetectionOf(dets, name) ==
    CASE name = "userAgent"      -> dets.UserAgent
      [] name = "headers"        -> dets.Headers
      [] name = "headerOrder"    -> dets.HeaderOrder
      [] name = "headerCount"    -> dets.HeaderCount
      [] name = "missingHeaders" -> dets.MissingHeaders
      [] name = "acceptHeaders"  -> dets.AcceptHeaders
      [] name = "connection"     -> dets.Connection
      [] name = "contentLength"  -> dets.ContentLength

\* C9: NewDetectorWithCustomDetectors(c) leaves a registry whose names are
\* the eight default names and the names of c; a name of c maps to the
\* function of c, which is the one Detect runs (its result is what Detect
\* records and counts), the other names map to the built-ins, and a
\* NewDetector made afterwards still holds the eight built-ins.
C9_CustomMergedOverDefaults ==
    /\ ret.op = "NewDetectorWithCustomDetectors" =>
          LET c == ret.arg[1]
          IN  /\ DOMAIN detectorFuncs = DefaultNames \cup DOMAIN c
              /\ \A name \in DOMAIN c : detectorFuncs[name] = c[name]
              /\ \A name \in DefaultNames \ DOMAIN c :
                    detectorFuncs[name] = getDefaultDetectors[name]
              /\ \A req \in DetectorRequests :
                    \A o \in DetectOutcomes(detectorFuncs, collectAllSources(req)) :
                       \A name \in DOMAIN c :
                          LET returned == CustomResult(c[name])
                          IN  /\ name \in DefaultNames =>
                                    DetectionOf(o.detections, name) =
                                        IF returned = Nil THEN BotDetectionResult(FALSE, "")
                                        ELSE Deref(returned)
                              /\ (returned # Nil /\ Deref(returned).Bot) => o.result.Bot
    /\ ret.op = "NewDetector" =>
          /\ DOMAIN detectorFuncs = DefaultNames
          /\ Cardinality(DOMAIN detectorFuncs) = 8
          /\ detectorFuncs = getDefaultDetectors

\* C9 case: the custom map overrides the built-in registered under
\* "userAgent"
C9_Witness ==
    /\ ret.op = "NewDetectorWithCustomDetectors"
    /\ "userAgent" \in DOMAIN ret.arg[1]
    /\ detectorFuncs["userAgent"] # getDefaultDetectors["userAgent"]

(***************************************************************************)
(* properties of the package-level API                                     *)
(***************************************************************************)
\* C5: QuickCheck returns a bot verdict only when the user-agent detector or
\* the missing-headers detector fires on the request; the other built-in
\* detectors have no say in it.
C5_QuickCheckRunsTwoDetectors ==
    api.op = "QuickCheck" =>
        ((/\ ~detectUserAgent(collectAllSources(api.arg[1])).Bot
          /\ ~detectMissingHeaders(collectAllSources(api.arg[1])).Bot)
            => ~api.result[1].Bot)

\* C6: a BrowserInfo returned by ParseBrowserFromUserAgent,
\* ParseBrowserFromRequest, ParseBrowser or GetBrowserInfo with IsBot = true
\* has the unknown browser name and an empty version.
C6_BotHasNoBrowserIdentity ==
    api.op \in {"ParseBrowserFromUserAgent", "ParseBrowserFromRequest", "ParseBrowser", "GetBrowserInfo"} =>
        (api.result[1].IsBot =>
            (api.result[1].Name = BrowserUnknown /\ api.result[1].Version = ""))

(***************************************************************************)
(* properties of the middleware                                            *)
(***************************************************************************)
\* the functions the handler called while serving the last request
Called(fn) == \E i \in 1..Len(mw.calls) : mw.calls[i].fn = fn
TimesCalled(fn) == Cardinality({i \in 1..Len(mw.calls) : mw.calls[i].fn = fn})

\* the last request went through detection (it was not skipped)
Detected == mw.op = "ServeHTTP" /\ ret.op = "DetectFromRequest" /\ ret.arg = <<mw.req>>
            /\ ~(mw.config.SkipFunc # Nil /\ RunSkipFunc(Deref(mw.config.SkipFunc), mw.req))

\* the last request went through detection and was classified as a bot
BotServed == Detected /\ ret.result[1].Bot

\* C10: with BlockBots = true, a request classified as a bot is answered
\* with the blocked status code and message (403 and "Bot traffic is not
\* allowed" when the code is 0 or the message is empty), and next is not
\* invoked.
C10_BlockBotsBlocks ==
    (mw.op = "ServeHTTP" /\ mw.config.BlockBots /\ BotServed) =>
        /\ mw.status = (IF mw.config.BlockedStatusCode = 0 THEN StatusForbidden
                        ELSE mw.config.BlockedStatusCode)
        /\ mw.body = (IF mw.config.BlockedMessage = "" THEN "Bot traffic is not allowed"
                      ELSE mw.config.BlockedMessage) \o "\n"
        /\ ~Called("next")

\* the context of the request handed to the first call the handler made
PassedContext == mw.calls[1].ctx

C12_LoggedBotReachesNext ==
    (BotServed /\ ~mw.config.BlockBots /\ mw.config.OnBotDetected = Ptr("logBot")) =>
        /\ Called("next")
        /\ \A i \in 1..Len(mw.calls) :
              mw.calls[i].fn = "next" =>
                  GetResultFromContext(mw.calls[i].ctx) = <<Ptr(ret.result[1]), TRUE>>

\* C13: when next is invoked after the detection ran on a request, the
\* request context holds, under two distinct keys, the verdict computed for
\* that request and the bag collected from it, whose UserAgent value is the
\* request's User-Agent header; from a context nothing was stored in, both
\* getters return ok = false.
C13_ContextCarriesVerdictAndBag ==
    /\ (Detected /\ Called("next")) =>
          /\ DetectionResultKey # ComponentsKey
          /\ GetResultFromContext(PassedContext) = <<Ptr(ret.result[1]), TRUE>>
          /\ GetComponentsFromContext(PassedContext) = <<Ptr(collectAllSources(mw.req)), TRUE>>
          /\ GetValue(Deref(GetComponentsFromContext(PassedContext)[1]).UserAgent)
                = HeaderGet(mw.req, "User-Agent")
    /\ (mw.op = "ServeHTTP" /\ Called("next") /\ DOMAIN PassedContext = {}) =>
          /\ GetResultFromContext(PassedContext) = <<Nil, FALSE>>
          /\ GetComponentsFromContext(PassedContext) = <<Nil, FALSE>>

\* a bot request that reached next with its verdict and bag in the context
C13_Witness ==
    /\ Detected
    /\ Called("next")
    /\ ret.result[1].Bot
    /\ HeaderGet(mw.req, "User-Agent") = CurlUA
    /\ DOMAIN PassedContext = {DetectionResultKey, ComponentsKey}

\* C14: when SkipFunc is configured and returns true for a request, the
\* handler invokes next with the original request and runs no detection:
\* the detector's components and detections stay as they were, nothing is
\* put in the context, and neither OnBotDetected nor the block response
\* happens, whatever the request and BlockBots are.
C14_SkipStep ==
    (/\ mw' # mw
     /\ mw'.config.SkipFunc # Nil
     /\ RunSkipFunc(Deref(mw'.config.SkipFunc), mw'.req)) =>
        /\ UNCHANGED <<components, detections, ret>>
        /\ mw'.calls = <<HandlerCall("next", EmptyContext, Nil)>>
        /\ mw'.status = StatusOK
        /\ mw'.body = "success"

C14_SkipRunsNoDetection == [][C14_SkipStep]_vars

\* a skipped curl request under BlockBots = true with a callback, served
\* after a browser request went through detection
C14_Witness ==
    /\ mw.op = "ServeHTTP"
    /\ mw.config.SkipFunc # Nil /\ RunSkipFunc(Deref(mw.config.SkipFunc), mw.req)
    /\ mw.config.BlockBots
    /\ mw.config.OnBotDetected # Nil
    /\ HeaderGet(mw.req, "User-Agent") = CurlUA
    /\ components = Ptr(collectAllSources(NewRequest("GET", BrowserHeaders, ChromeUA, 0)))
    /\ Called("next")

(***************************************************************************)
(* properties of the package-level functions                               *)
(***************************************************************************)
\* C15: a request without a User-Agent header is classified as a bot of
\* kind "unknown" by the package-level Detect (the default detectors) and by
\* QuickCheck, whatever its other headers are, although the user-agent
\* detector reports non-bot on it.
C15_AbsentUserAgentIsBot ==
    (api.op \in {"Detect", "QuickCheck"} /\ HeaderGet(api.arg[1], "User-Agent") = "") =>
        /\ api.result[1] = BotDetectionResult(TRUE, BotKindUnknown)
        /\ api.result[2] = Nil
        /\ detectUserAgent(collectAllSources(api.arg[1])) = NotBot

\* QuickCheck on a request with the four other common headers and no
\* User-Agent
C15_Witness ==
    /\ api.op = "QuickCheck"
    /\ api.arg = <<NewRequest("GET", BrowserHeaders, "", 0)>>
    /\ api.result[1].Bot

\* C18: every verdict returned by Detect / DetectFromRequest, and every
\* (bool, kind) pair returned by IsBotUserAgent and IsGPTAgent, has an empty
\* kind when it is not a bot verdict, also when a registered function
\* returned a result with Bot = false and a kind.
C18_NotBotHasNoKind ==
    /\ api.op \in {"Detect", "QuickCheck", "DetectFromRequest"} =>
          (~api.result[1].Bot => api.result[1].BotKind = "")
    /\ api.op = "GetBrowserInfo" =>
          (~api.result[2].Bot => api.result[2].BotKind = "")
    /\ api.op \in {"IsBotUserAgent", "IsGPTAgent"} =>
          (~api.result[1] => api.result[2] = "")

\* a browser request on a detector with a custom function that returns
\* Bot = false with the selenium kind
C18_Witness ==
    /\ api.op = "DetectFromRequest"
    /\ api.arg = <<[name \in {"test"} |-> "kindWithoutBot"],
                   NewRequest("GET", BrowserHeaders, ChromeUA, 0)>>
    /\ CustomResult("kindWithoutBot") = Ptr(BotDetectionResult(FALSE, BotKindSelenium))
    /\ api.result[1] = BotDetectionResult(FALSE, "")

\* the names of the five header-family detectors that fire on the bag
\* built from the header map headers
FiringHeaderDetectors(headers) ==
    {name \in {"headers", "headerCount", "missingHeaders", "acceptHeaders", "connection"} :
        Deref(RunDetector(getDefaultDetectors[name],
                          collectAllSources(AnalyzeRequest(headers)))).Bot}

\* C19: AnalyzeHeaders(h) returns a bot verdict exactly when at least one of
\* the detectors headers, headerCount, missingHeaders, acceptHeaders and
\* connection fires on the bag built from h, and returns the same verdict
\* whatever the order of the five; a map with only Chrome-Proxy is a bot.
C19_AnalyzeHeadersAnyOfFive ==
    api.op = "AnalyzeHeaders" =>
        /\ api.result[1].Bot <=> FiringHeaderDetectors(api.arg[1]) # {}
        /\ AnalyzeHeaders(api.arg[1]) = {api.result[1]}
        /\ DOMAIN api.arg[1] = {"Chrome-Proxy"} => api.result[1].Bot

\* browser headers and a user agent with X-Requested-With: only the
\* detector headers fires
C19_Witness ==
    /\ api.op = "AnalyzeHeaders"
    /\ api.arg = <<MapSet(AjaxHeaders, "User-Agent", <<ChromeUA>>)>>
    /\ FiringHeaderDetectors(api.arg[1]) = {"headers"}
    /\ api.result[1] = BotDetectionResult(TRUE, BotKindUnknown)

(***************************************************************************)
(* properties of compareVersions                                           *)
(***************************************************************************)
\* the comparison of every pair of versions
Compared == [pair \in Versions \X Versions |-> compareVersions(pair[1], pair[2])]

\* C16: compareVersions("", v) is negative and compareVersions(v, "") is
\* positive for every non-empty version v, "0" and "0.0" included, and
\* compareVersions("", "") is 0.
C16_EmptyVersionIsLeast ==
    api.op = "compareVersions" =>
        /\ (api.arg[1] = "" /\ api.arg[2] # "") => api.result[1] < 0
        /\ (api.arg[1] # "" /\ api.arg[2] = "") => api.result[1] > 0
        /\ (api.arg[1] = "" /\ api.arg[2] = "") => api.result[1] = 0

\* C17: compareVersions is antisymmetric and transitive over the versions,
\* compares the segments as integers ("1.10.0" is greater than "1.9.0") and
\* takes a missing segment as zero ("1.0" equals "1.0.0").
C17_VersionOrder ==
    api.op = "compareVersions" =>
        /\ api.result[1] \in {-1, 0, 1}
        /\ api.result[1] = -Compared[<<api.arg[2], api.arg[1]>>]
        /\ \A v3 \in Versions :
              (api.result[1] <= 0 /\ Compared[<<api.arg[2], v3>>] <= 0)
                  => Compared[<<api.arg[1], v3>>] <= 0
        /\ api.arg = <<"1.10.0", "1.9.0">> => api.result[1] = 1
        /\ api.arg = <<"1.0", "1.0.0">> => api.result[1] = 0
        /\ compareVersions(api.arg[1], api.arg[1] \o ".0") = 0

\* the comparison of "1.10.0" with "1.9.0"
C17_Witness ==
    /\ api.op = "compareVersions"
    /\ api.arg = <<"1.10.0", "1.9.0">>
    /\ api.result = <<1>>

(***************************************************************************)
(* properties of concurrent use                                            *)
(***************************************************************************)
\* the loop of Detect has visited some keys of the registry and not all
MidIteration ==
    /\ procs.pc = "range"
    /\ procs.l.visited # {}
    /\ ~(DOMAIN detectorFuncs \subseteq procs.l.visited)

\* C21: nothing keeps AddDetector and RemoveDetector from running while a
\* Detect pass is in the middle of iterating the registry: in every such
\* state both can take their step and write the map.
C21_RegistryWritableMidIteration ==
    MidIteration =>
        /\ ENABLED AddDetector("test", "seleniumDetector")
        /\ ENABLED RemoveDetector("test")

\* the registry was written by AddDetector while the pass, which began on
\* the map without the key "test", is in the middle of its loop
C21_Witness ==
    /\ MidIteration
    /\ ret.op = "AddDetector"
    /\ "test" \in DOMAIN detectorFuncs
    /\ "test" \notin DOMAIN procs.ranged

(***************************************************************************)
(* properties of the built-in detectors                                    *)
(***************************************************************************)
\* the kinds of the groups in their order of precedence
GroupOrder ==
    <<BotKindGPTBot, BotKindChatGPT, BotKindOpenAI, BotKindClaude, BotKindAIAgent,
      BotKindPhantomJS, BotKindSelenium, BotKindElectron, BotKindHeadlessChrome,
      BotKindPlaywright, BotKindPuppeteer, BotKindCurl, BotKindWget, BotKindCrawler,
      BotKindBot>>

\* the positions of the groups with a pattern that occurs in the lower-cased
\* user agent
MatchingGroups(userAgent) ==
    {i \in 1..Len(specificBots) : GroupMatches(ToLower(userAgent), specificBots[i])}

\* C22: detectUserAgent returns the kind of the first group, in the order
\* GPTBot, ChatGPT, OpenAI, Claude, AIAgent, PhantomJS, Selenium, Electron,
\* HeadlessChrome, Playwright, Puppeteer, Curl, Wget, Crawler, Bot, that has
\* a pattern occurring in the lower-cased user agent, and the unknown kind
\* of the suspicious patterns only when no group matches: a crawler name
\* with "bot" is a Crawler, "chatgpt" with "openai" is ChatGPT.
C22_FirstGroupWins ==
    api.op = "detectUserAgent" =>
        /\ MatchingGroups(api.arg[1]) # {} =>
              api.result[1] =
                  BotDetectionResult(TRUE, GroupOrder[Least(MatchingGroups(api.arg[1]))])
        /\ api.result[1].BotKind = BotKindUnknown => MatchingGroups(api.arg[1]) = {}
        /\ (Contains(ToLower(api.arg[1]), "googlebot") /\ Least(MatchingGroups(api.arg[1])) > 13)
              => api.result[1].BotKind = BotKindCrawler
        /\ (Contains(ToLower(api.arg[1]), "chatgpt") /\ Contains(ToLower(api.arg[1]), "openai")
            /\ ~Contains(ToLower(api.arg[1]), "gptbot"))
              => api.result[1].BotKind = BotKindChatGPT

\* a user agent with a generic token before a crawler name
C22_Witness ==
    /\ api.op = "detectUserAgent"
    /\ api.arg = <<"Spider Googlebot/2.1">>
    /\ api.result[1] = BotDetectionResult(TRUE, BotKindCrawler)

(***************************************************************************)
(* properties of the browser parser                                        *)
(***************************************************************************)
\* the browsers in their order of precedence
BrowserOrder ==
    <<BrowserEdge, BrowserYandex, BrowserVivaldi, BrowserBrave, BrowserSamsung,
      BrowserUCBrowser, BrowserOpera, BrowserChrome, BrowserFirefox, BrowserSafari,
      BrowserIE>>

BrowserRank(name) == CHOOSE i \in 1..Len(BrowserOrder) : BrowserOrder[i] = name

\* the browser tokens that occur in the user agent
TokensIn(ua) == {t \in BrowserTokens : t.name # BrowserUnknown /\ Contains(ua, t.text)}

\* the token of ua whose browser comes first in BrowserOrder
FirstToken(ua) ==
    CHOOSE t \in TokensIn(ua) :
        \A other \in TokensIn(ua) : BrowserRank(t.name) <= BrowserRank(other.name)

\* C23: parseBrowserNameAndVersion reports the browser of the earliest
\* matching pattern in the order Edge, Yandex, Vivaldi, Brave, Samsung, UC
\* Browser, Opera, Chrome, Firefox, Safari, Internet Explorer, with the
\* version that pattern captures; a user agent with an "Edg/" token and a
\* "Chrome/" token is Edge wherever the two tokens stand.
C23_EarliestPatternWins ==
    api.op = "parseBrowserNameAndVersion" =>
        /\ TokensIn(api.arg[1]) # {} =>
              api.result[1] = <<FirstToken(api.arg[1]).name, FirstToken(api.arg[1]).version>>
        /\ (Contains(api.arg[1], "Edg/") /\ Contains(api.arg[1], "Chrome/"))
              => api.result[1] = <<BrowserEdge, "120.0.2210.91">>

\* the Chrome token stands before the Edge token
C23_Witness ==
    /\ api.op = "parseBrowserNameAndVersion"
    /\ api.arg = <<"Chrome/120.0.0.0 Edg/120.0.2210.91">>
    /\ api.result[1] = <<BrowserEdge, "120.0.2210.91">>

\* the expected headers that a request lacks
ExpectedHeaders == {"Accept", "Accept-Language", "Accept-Encoding", "Connection", "User-Agent"}

Lacking(req) == {h \in ExpectedHeaders : HeaderGet(req, h) = ""}

\* C24: detectMissingHeaders returns bot, of the unknown kind, exactly when
\* User-Agent is missing or at least 4 of the five expected headers are
\* missing; with User-Agent present and at most 3 of the other four missing
\* it returns non-bot.
C24_MissingHeadersVerdict ==
    api.op = "detectMissingHeaders" =>
        /\ api.result[1].Bot <=>
              \/ "User-Agent" \in Lacking(api.arg[1])
              \/ Cardinality(Lacking(api.arg[1])) >= 4
        /\ api.result[1].Bot => api.result[1].BotKind = BotKindUnknown
        /\ ("User-Agent" \notin Lacking(api.arg[1]) /\ Cardinality(Lacking(api.arg[1])) <= 3)
              => api.result[1] = NotBot

\* User-Agent is sent and the other four are missing
C24_Witness ==
    /\ api.op = "detectMissingHeaders"
    /\ Lacking(api.arg[1]) = ExpectedHeaders \ {"User-Agent"}
    /\ api.result[1] = BotDetectionResult(TRUE, BotKindUnknown)

(***************************************************************************)
(* properties of the version comparison, continued                         *)
(***************************************************************************)
\* s without its characters that are neither digits nor dots
RECURSIVE StripNonNumeric(_)
StripNonNumeric(s) ==
    IF s = "" THEN ""
    ELSE (IF IsDigit(CharAt(s, 1)) \/ CharAt(s, 1) = "." THEN SubSeq(s, 1, 1) ELSE "")
            \o StripNonNumeric(SubSeq(s, 2, Len(s)))

\* C25: a segment of a version is converted to an integer by stripping its
\* non-numeric characters, so that "1a2" is compared as 12: comparing two
\* versions gives what comparing them without their non-numeric characters
\* gives.
C25_SegmentsAreStripped ==
    api.op = "compareVersions" =>
        api.result[1] = compareVersions(StripNonNumeric(api.arg[1]), StripNonNumeric(api.arg[2]))

(***************************************************************************)
(* properties of the accessors                                             *)
(***************************************************************************)
\* what the detector registered under name leaves in its field of a new
\* DetectionDict
FieldResult(funcs, c, name) ==
    IF name \in DOMAIN funcs /\ RunDetector(funcs[name], c) # Nil
    THEN Deref(RunDetector(funcs[name], c))
    ELSE BotDetectionResult(FALSE, "")

FreshDetections(funcs, c) ==
    [UserAgent      |-> FieldResult(funcs, c, "userAgent"),
     Headers        |-> FieldResult(funcs, c, "headers"),
     HeaderOrder    |-> FieldResult(funcs, c, "headerOrder"),
     HeaderCount    |-> FieldResult(funcs, c, "headerCount"),
     MissingHeaders |-> FieldResult(funcs, c, "missingHeaders"),
     AcceptHeaders  |-> FieldResult(funcs, c, "acceptHeaders"),
     Connection     |-> FieldResult(funcs, c, "connection"),
     ContentLength  |-> FieldResult(funcs, c, "contentLength")]

Constructors == {"NewDetector", "NewDetectorWithCustomDetectors"}

\* one call on the BotDetector, seen through what GetComponents (the field
\* components) and GetDetections (the field detections) return after it
C26_Step ==
    /\ ret'.op \in Constructors => GetComponents' = Nil /\ GetDetections' = Nil
    /\ ret'.op = "Collect" => GetComponents' = Ptr(collectAllSources(ret'.arg[1]))
    /\ ret'.op \notin Constructors \cup {"Collect"} => GetComponents' = GetComponents
    /\ (ret'.op = "Detect" /\ ~ret'.panicked) =>
          GetDetections' = Ptr(FreshDetections(detectorFuncs', Deref(components')))
    /\ (ret'.op \notin Constructors \cup {"Detect"} \/ ret'.panicked) => GetDetections' = GetDetections

\* C26: GetComponents returns nil until the first Collect and then the bag
\* of the most recent Collect; GetDetections returns nil until the first
\* Detect completes and then the per-detector results of the most recent
\* Detect, which fills a new record, so that no result of an earlier Detect
\* survives.
C26_AccessorsFollowLastCall ==
    /\ GetComponents = Nil /\ GetDetections = Nil
    /\ [][C26_Step]_vars

\* a Detect completed on the bag of the GPTBot request after the user-agent
\* detector was removed, and the record holds no user-agent result
C26_Witness ==
    /\ ret.op = "Detect" /\ ~ret.panicked
    /\ "userAgent" \notin DOMAIN detectorFuncs
    /\ components = Ptr(collectAllSources(NewRequest("GET", BrowserHeaders, GPTBotUA, 0)))
    /\ detections = Ptr(FreshDetections(detectorFuncs, Deref(components)))
    /\ Deref(detections).UserAgent = BotDetectionResult(FALSE, "")
    /\ Len(hist) = 1

(***************************************************************************)
(* properties of the middleware under concurrent requests                  *)
(***************************************************************************)
\* the context of the request that the handler h handed to next
HandlerContextOf(h) == Deref(procs[h].served).calls[1].ctx

\* C27: when two requests are served at the same time through middleware of
\* one BotDetector, each request's verdict is computed from its own bag and
\* the bag in its context is the one collected from it, in every
\* interleaving of the handlers' Collect, Detect and GetComponents steps.
C27_HandlersUseOwnBag ==
    \A h \in Handlers :
        procs[h].pc = "done" =>
            /\ Deref(procs[h].result) \in DetectFromRequest(detectorFuncs, Deref(procs[h].req))
            /\ GetResultFromContext(HandlerContextOf(h))[1] = procs[h].result
            /\ GetComponentsFromContext(HandlerContextOf(h))[1]
                  = Ptr(collectAllSources(Deref(procs[h].req)))

(***************************************************************************)
(* properties of Detect with the built-in detectors                        *)
(***************************************************************************)
\* the built-in detectors that return a bot verdict on the bag of req
FiringBuiltIns(req) ==
    {name \in DOMAIN getDefaultDetectors :
        Deref(RunDetector(getDefaultDetectors[name], collectAllSources(req))).Bot}

\* the verdict the built-in detectors give req, whatever the order
BuiltInVerdict(req, userAgentResult) ==
    IF userAgentResult.Bot /\ userAgentResult.BotKind # BotKindUnknown
    THEN userAgentResult
    ELSE IF FiringBuiltIns(req) # {}
         THEN BotDetectionResult(TRUE, BotKindUnknown)
         ELSE BotDetectionResult(FALSE, "")

\* C28: with only the eight built-in detectors registered the verdict of
\* Detect does not depend on the order of the loop: its kind is the
\* user-agent detector's when that one reports a specific kind, "unknown"
\* when some detector fires and the user-agent detector reports no specific
\* kind, and empty when no detector fires.
C28_BuiltInVerdictIsOrderFree ==
    api.op = "Detect" =>
        /\ api.result[1] = BuiltInVerdict(api.arg[1], detectUserAgent(collectAllSources(api.arg[1])))
        /\ DetectFromRequest(getDefaultDetectors, api.arg[1]) = {api.result[1]}

\* the user-agent detector reports Curl and other detectors fire as well
C28_Witness ==
    /\ api.op = "Detect"
    /\ api.arg[1] = NewRequest("GET", NoHeaders, CurlUA, 0)
    /\ Cardinality(FiringBuiltIns(api.arg[1])) > 2
    /\ api.result[1] = BotDetectionResult(TRUE, BotKindCurl)

(***************************************************************************)
(* properties of the middleware, continued                                 *)
(***************************************************************************)
\* the status code and the first line of the block response of the
\* configuration the last request was served under
BlockStatus ==
    IF mw.config.BlockedStatusCode = 0 THEN StatusForbidden ELSE mw.config.BlockedStatusCode

BlockLine ==
    (IF mw.config.BlockedMessage = "" THEN "Bot traffic is not allowed"
     ELSE mw.config.BlockedMessage) \o "\n"

\* the handler wrote the block response while serving the last request
BlockWritten ==
    /\ mw.status = BlockStatus
    /\ Len(mw.body) >= Len(BlockLine)
    /\ SubSeq(mw.body, 1, Len(BlockLine)) = BlockLine

\* how many of the four outcomes happened, each counted as often as it did
Outcomes ==
    TimesCalled("next") + TimesCalled("OnBotDetected") + TimesCalled("OnError")
        + (IF BlockWritten THEN 1 ELSE 0)

C30_AgentFunctionsAgree ==
    /\ api.op = "GetAIAgentInfo" =>
          <<api.result[1], api.result[2]>> = IsGPTRequest(api.arg[1])
    /\ api.op = "IsGPTRequest" =>
          \A info \in GetAIAgentInfo(api.arg[1]) : <<info[1], info[2]>> = api.result

\* an AI agent's request without the common headers: other detectors fire
\* with the unknown kind, and GetAIAgentInfo still reports Claude
C30_Witness ==
    /\ api.op = "GetAIAgentInfo"
    /\ api.arg[1] = NewRequest("GET", NoHeaders, "Claude-Web/1.0", 0)
    /\ Cardinality(FiringBuiltIns(api.arg[1])) > 1
    /\ api.result[1]
    /\ api.result[2] = BotKindClaude

====
